---- MODULE Spec2Model ----
(***************************************************************************)
(* A model of the static SEO page generation pipeline of hanma             *)
(* (apps/web/scripts/seo-build): the slug deriver, the metadata            *)
(* synthesizer, the keyword matchers, the nine page generators and the     *)
(* build orchestrator.                                                     *)
(*                                                                         *)
(* Strings are sequences of characters.  An ASCII character is the         *)
(* one-character string; a non-ASCII character is written "U+XXXX".        *)
(***************************************************************************)
EXTENDS Integers, Sequences, FiniteSets, TLC

VARIABLES
    \* slugify under test: its input, its output, the output slugified again
    slugPc, slugInput, slugOnce, slugTwice,
    \* findMatchingSnippets under test: the query, the snippet list, the
    \* score of every snippet (matches), the returned list, and the scores
    \* before the last edit of the snippets' text
    searchPc, searchQuery, searchSnippets, searchScores, searchResult,
    searchPrevScores, searchEdits,
    \* the two extractors under test: the snippet, which extractor has run,
    \* and what each returned
    classifySnippet, classifyDone, classifyTags, classifyUseCases,
    \* one run of build(): the step it is at, the content the loader returns,
    \* the result of each generator that has run, and the three files written
    \* at the end
    buildPc, buildDocs, results, sitemap, robotsTxt, buildStats,
    \* generateFullPage under test: the metadata, the content and the JSON-LD
    \* it is given, and the document it returns
    pagePc, pageMetadata, pageContent, pageJsonLd, pageDocument,
    \* generateBreadcrumbJsonLd under test: the items it is given and the string it
    \* returns
    crumbPc, crumbItems, crumbJsonLd,
    \* loadFrameworkCategories under test: the content directory and the list
    \* it returns
    loadPc, loadDocs, loadResult,
    \* one round of the snippet loop of generateSnippetPages: the content
    \* directory, the snippet, what loadSnippetSource returned, the page (if one
    \* was generated) and the page files written
    sourcePc, sourceDocs, sourceSnippet, sourceLoaded, sourcePage, sourceDisk,
    \* generateMetadata under test: the page type, the context, the additional
    \* data, and the outcome, a thrown error or the metadata returned
    metaPc, metaType, metaContext, metaData, metaThrew, metaResult,
    \* a renderer of the markup layer under test: the argument that holds the
    \* free text, the free text, and the markup returned
    renderPc, renderSlot, renderText, renderOutput,
    \* runs of the build process over one output directory: the position of
    \* build(), the content directory, the results of the generators that have
    \* returned, the files of the output directory, the steps that have run, the
    \* error thrown in this run if any, the exit status of the process if it has
    \* exited, the number of the run, and the outcome of the run before it
    runPc, runDocs, runResults, runDisk, runLog, runThrown, runExit, runCount, runBefore,
    \* the five keyword matchers applied to one snippet (category-pages.ts,
    \* tutorial-pages.ts, pattern-pages.ts, search-pages.ts)
    matchSnippet, matchKeyword, matchResult,
    \* The JSON-LD of one page: the framework, its description, the category and
    \* the source code the generators are given, the generator that ran, the third
    \* argument it passed to generateFullPage, and the document that was returned
    ldPc, ldFramework, ldDescription, ldCategory, ldSource, ldGenerator, ldJsonLd, ldDocument

slugVars == <<slugPc, slugInput, slugOnce, slugTwice>>

searchVars == <<searchPc, searchQuery, searchSnippets, searchScores,
                searchResult, searchPrevScores, searchEdits>>

classifyVars == <<classifySnippet, classifyDone, classifyTags, classifyUseCases>>

buildVars == <<buildPc, buildDocs, results, sitemap, robotsTxt, buildStats>>

pageVars == <<pagePc, pageMetadata, pageContent, pageJsonLd, pageDocument>>

crumbVars == <<crumbPc, crumbItems, crumbJsonLd>>

loadVars == <<loadPc, loadDocs, loadResult>>

sourceVars == <<sourcePc, sourceDocs, sourceSnippet, sourceLoaded, sourcePage, sourceDisk>>

metaVars == <<metaPc, metaType, metaContext, metaData, metaThrew, metaResult>>

renderVars == <<renderPc, renderSlot, renderText, renderOutput>>

runVars == <<runPc, runDocs, runResults, runDisk, runLog, runThrown, runExit, runCount, runBefore>>

matchVars == <<matchSnippet, matchKeyword, matchResult>>

ldVars == <<ldPc, ldFramework, ldDescription, ldCategory, ldSource, ldGenerator, ldJsonLd, ldDocument>>

vars == <<slugVars, searchVars, classifyVars, buildVars, pageVars, crumbVars,
          loadVars, sourceVars, metaVars, renderVars, runVars, matchVars,
          ldVars>>

\* What the actions of one part leave alone.
exceptSlug == <<searchVars, classifyVars, buildVars, pageVars, crumbVars,
                loadVars, sourceVars, metaVars, renderVars, runVars,
                matchVars, ldVars>>

exceptSearch == <<slugVars, classifyVars, buildVars, pageVars, crumbVars,
                  loadVars, sourceVars, metaVars, renderVars, runVars,
                  matchVars, ldVars>>

exceptClassify == <<slugVars, searchVars, buildVars, pageVars, crumbVars,
                    loadVars, sourceVars, metaVars, renderVars, runVars,
                    matchVars, ldVars>>

exceptBuild == <<slugVars, searchVars, classifyVars, pageVars, crumbVars,
                 loadVars, sourceVars, metaVars, renderVars, runVars,
                 matchVars, ldVars>>

exceptPage == <<slugVars, searchVars, classifyVars, buildVars, crumbVars,
                loadVars, sourceVars, metaVars, renderVars, runVars,
                matchVars, ldVars>>

exceptCrumb == <<slugVars, searchVars, classifyVars, buildVars, pageVars,
                 loadVars, sourceVars, metaVars, renderVars, runVars,
                 matchVars, ldVars>>

exceptLoad == <<slugVars, searchVars, classifyVars, buildVars, pageVars,
                crumbVars, sourceVars, metaVars, renderVars, runVars,
                matchVars, ldVars>>

exceptSource == <<slugVars, searchVars, classifyVars, buildVars, pageVars,
                  crumbVars, loadVars, metaVars, renderVars, runVars,
                  matchVars, ldVars>>

exceptMeta == <<slugVars, searchVars, classifyVars, buildVars, pageVars,
                crumbVars, loadVars, sourceVars, renderVars, runVars,
                matchVars, ldVars>>

exceptRender == <<slugVars, searchVars, classifyVars, buildVars, pageVars,
                  crumbVars, loadVars, sourceVars, metaVars, runVars,
                  matchVars, ldVars>>

exceptRun == <<slugVars, searchVars, classifyVars, buildVars, pageVars,
               crumbVars, loadVars, sourceVars, metaVars, renderVars,
               matchVars, ldVars>>

exceptMatch == <<slugVars, searchVars, classifyVars, buildVars, pageVars,
                 crumbVars, loadVars, sourceVars, metaVars, renderVars,
                 runVars, ldVars>>

exceptLd == <<slugVars, searchVars, classifyVars, buildVars, pageVars,
              crumbVars, loadVars, sourceVars, metaVars, renderVars, runVars,
              matchVars>>

(***************************************************************************)
(* The parts of the model that a specification does not exercise stay in   *)
(* these states.                                                           *)
(***************************************************************************)

SlugIdle ==
    /\ slugPc = "idle"
    /\ slugInput = <<>>
    /\ slugOnce = <<>>
    /\ slugTwice = <<>>

SearchIdle ==
    /\ searchPc = "idle"
    /\ searchQuery = <<>>
    /\ searchSnippets = <<>>
    /\ searchScores = <<>>
    /\ searchResult = <<>>
    /\ searchPrevScores = <<>>
    /\ searchEdits = 0

ClassifyIdle ==
    /\ classifySnippet = <<>>
    /\ classifyDone = {}
    /\ classifyTags = <<>>
    /\ classifyUseCases = <<>>

BuildIdle ==
    /\ buildPc = "idle"
    /\ buildDocs = <<>>
    /\ results = <<>>
    /\ sitemap = <<>>
    /\ robotsTxt = <<>>
    /\ buildStats = <<>>

PageIdle ==
    /\ pagePc = "idle"
    /\ pageMetadata = <<>>
    /\ pageContent = <<>>
    /\ pageJsonLd = <<>>
    /\ pageDocument = <<>>

CrumbIdle ==
    /\ crumbPc = "idle"
    /\ crumbItems = <<>>
    /\ crumbJsonLd = <<>>

LoadIdle ==
    /\ loadPc = "idle"
    /\ loadDocs = <<>>
    /\ loadResult = <<>>

SourceIdle ==
    /\ sourcePc = "idle"
    /\ sourceDocs = <<>>
    /\ sourceSnippet = <<>>
    /\ sourceLoaded = <<>>
    /\ sourcePage = <<>>
    /\ sourceDisk = <<>>

MetaIdle ==
    /\ metaPc = "idle"
    /\ metaType = "home"
    /\ metaContext = <<>>
    /\ metaData = <<>>
    /\ metaThrew = FALSE
    /\ metaResult = <<>>

RenderIdle ==
    /\ renderPc = "idle"
    /\ renderSlot = "code"
    /\ renderText = <<>>
    /\ renderOutput = <<>>

RunIdle ==
    /\ runPc = "idle"
    /\ runDocs = <<>>
    /\ runResults = <<>>
    /\ runDisk = <<>>
    /\ runLog = <<>>
    /\ runThrown = <<>>
    /\ runExit = <<>>
    /\ runCount = 0
    /\ runBefore = <<>>

MatchIdle ==
    /\ matchSnippet = <<>>
    /\ matchKeyword = <<>>
    /\ matchResult = <<>>

LdIdle ==
    /\ ldPc = "idle"
    /\ ldFramework = <<>>
    /\ ldDescription = <<>>
    /\ ldCategory = <<>>
    /\ ldSource = <<>>
    /\ ldGenerator = ""
    /\ ldJsonLd = <<>>
    /\ ldDocument = <<>>

(***************************************************************************)
(* Strings                                                                 *)
(***************************************************************************)

\* All sequences over S of length at most n.
StringsUpTo(S, n) == UNION {[1..k -> S] : k \in 0..n}

UpperCase == <<"A","B","C","D","E","F","G","H","I","J","K","L","M",
               "N","O","P","Q","R","S","T","U","V","W","X","Y","Z">>

LowerCase == <<"a","b","c","d","e","f","g","h","i","j","k","l","m",
               "n","o","p","q","r","s","t","u","v","w","x","y","z">>

DigitChars == <<"0", "1", "2", "3", "4", "5", "6", "7", "8", "9">>

Digits == {DigitChars[i] : i \in DOMAIN DigitChars}

LowerLetters == {LowerCase[i] : i \in DOMAIN LowerCase}

UpperLetters == {UpperCase[i] : i \in DOMAIN UpperCase}

\* The character class [a-z0-9] of slugify's first regular expression.
IsAlnum(c) == c \in LowerLetters \cup Digits

\* String.prototype.toLowerCase on one character.  The result is a string:
\* U+0130 (capital I with dot above) lower-cases to "i" followed by U+0307,
\* U+212A (Kelvin sign) to the ASCII letter "k", U+00C9 to U+00E9.
LowerOfChar(c) ==
    IF c \in UpperLetters
    THEN <<LowerCase[CHOOSE i \in DOMAIN UpperCase : UpperCase[i] = c]>>
    ELSE IF c = "U+212A" THEN <<"k">>
    ELSE IF c = "U+0130" THEN <<"i", "U+0307">>
    ELSE IF c = "U+00C9" THEN <<"U+00E9">>
    ELSE <<c>>

RECURSIVE ToLowerCase(_)
ToLowerCase(s) ==
    IF s = <<>> THEN <<>> ELSE LowerOfChar(Head(s)) \o ToLowerCase(Tail(s))

\* String.prototype.includes: needle is a contiguous substring of text.
Includes(text, needle) ==
    \E i \in 0..(Len(text) - Len(needle)) :
        SubSeq(text, i + 1, i + Len(needle)) = needle

(***************************************************************************)
(* slugify (utils/seo-metadata.ts)                                         *)
(***************************************************************************)

\* s.replace(/[^a-z0-9]+/g, "-"): every maximal run of characters outside
\* [a-z0-9] becomes one hyphen.  inRun: the previous character was in a run.
RECURSIVE ReplaceNonAlnumRuns(_, _)
ReplaceNonAlnumRuns(s, inRun) ==
    IF s = <<>> THEN <<>>
    ELSE IF IsAlnum(Head(s)) THEN <<Head(s)>> \o ReplaceNonAlnumRuns(Tail(s), FALSE)
    ELSE IF inRun THEN ReplaceNonAlnumRuns(Tail(s), TRUE)
    ELSE <<"-">> \o ReplaceNonAlnumRuns(Tail(s), TRUE)

RECURSIVE DropLeadingHyphens(_)
DropLeadingHyphens(s) ==
    IF s # <<>> /\ Head(s) = "-" THEN DropLeadingHyphens(Tail(s)) ELSE s

RECURSIVE DropTrailingHyphens(_)
DropTrailingHyphens(s) ==
    IF s # <<>> /\ s[Len(s)] = "-"
    THEN DropTrailingHyphens(SubSeq(s, 1, Len(s) - 1))
    ELSE s

\* s.replace(/^-+|-+$/g, "")
TrimHyphens(s) == DropTrailingHyphens(DropLeadingHyphens(s))

\* s.replace(/-+/g, "-")
RECURSIVE CollapseHyphens(_, _)
CollapseHyphens(s, inRun) ==
    IF s = <<>> THEN <<>>
    ELSE IF Head(s) # "-" THEN <<Head(s)>> \o CollapseHyphens(Tail(s), FALSE)
    ELSE IF inRun THEN CollapseHyphens(Tail(s), TRUE)
    ELSE <<"-">> \o CollapseHyphens(Tail(s), TRUE)

\* A slugify that trims before it replaces the separators.
slugifyTrimFirst(text) ==
    CollapseHyphens(ReplaceNonAlnumRuns(TrimHyphens(ToLowerCase(text)), FALSE), FALSE)

\* A slugify that leaves the leading and trailing hyphens in place.
slugifyNoTrim(text) ==
    CollapseHyphens(ReplaceNonAlnumRuns(ToLowerCase(text), FALSE), FALSE)

slugify(text) ==
    CollapseHyphens(TrimHyphens(ReplaceNonAlnumRuns(ToLowerCase(text), FALSE)), FALSE)

(***************************************************************************)
(* slugify applied to an input, then to its own output                     *)
(***************************************************************************)

MaxSlugLen == 3

\* A lower-case letter, an upper-case letter, a digit, a hyphen, a space, a
\* non-ASCII letter whose lower case is non-ASCII, and the two characters
\* whose lower case contains an ASCII letter.
SlugAlphabet == {"a", "B", "7", "-", " ", "U+00C9", "U+212A", "U+0130"}

SlugInit ==
    /\ slugPc = "input"
    /\ slugInput \in StringsUpTo(SlugAlphabet, MaxSlugLen)
    /\ slugOnce = <<>>
    /\ slugTwice = <<>>
    /\ SearchIdle /\ ClassifyIdle /\ BuildIdle /\ PageIdle /\ CrumbIdle /\ LoadIdle /\ SourceIdle /\ MetaIdle /\ RenderIdle /\ RunIdle /\ MatchIdle /\ LdIdle

SlugifyInput ==
    /\ slugPc = "input"
    /\ slugOnce' = slugify(slugInput)
    /\ slugPc' = "once"
    /\ UNCHANGED <<slugInput, slugTwice, exceptSlug>>

SlugifyOutput ==
    /\ slugPc = "once"
    /\ slugTwice' = slugify(slugOnce)
    /\ slugPc' = "twice"
    /\ UNCHANGED <<slugInput, slugOnce, exceptSlug>>

SlugNext == SlugifyInput \/ SlugifyOutput

SpecSlug == SlugInit /\ [][SlugNext]_vars

\* C4: slugify is idempotent: slugify(slugify(s)) = slugify(s) for every
\* input s, the second application being made on the first one's output.
SlugifyIdempotent == slugPc = "twice" => slugTwice = slugOnce

\* An input with upper case, a leading separator and a repeated separator
\* has been slugified twice.
SlugifyIdempotentWitness ==
    /\ slugPc = "twice"
    /\ slugInput = <<" ", "B", "-">>
    /\ slugOnce = <<"b">>

\* The output is empty, or runs of [a-z0-9] joined by single hyphens.
WellFormedSlug(s) ==
    /\ \A i \in DOMAIN s : IsAlnum(s[i]) \/ s[i] = "-"
    /\ s # <<>> => s[1] # "-" /\ s[Len(s)] # "-"
    /\ \A i \in 1..(Len(s) - 1) : ~(s[i] = "-" /\ s[i + 1] = "-")

HasAsciiAlnum(s) ==
    \E i \in DOMAIN s : s[i] \in LowerLetters \cup UpperLetters \cup Digits

\* C5 as stated: the output of slugify is empty or runs of [a-z0-9] joined
\* by single hyphens, and it is empty when the input has no ASCII letter or
\* digit.
SlugShapeAsStated ==
    slugPc # "input" =>
        /\ WellFormedSlug(slugOnce)
        /\ ~HasAsciiAlnum(slugInput) => slugOnce = <<>>

\* C5 amended: the output of slugify is empty or runs of [a-z0-9] joined by
\* single hyphens, and it is empty when the lower-cased input has no ASCII
\* letter or digit (lower-casing can bring one in: U+212A becomes "k").
SlugShape ==
    slugPc # "input" =>
        /\ WellFormedSlug(slugOnce)
        /\ ~HasAsciiAlnum(ToLowerCase(slugInput)) => slugOnce = <<>>

\* A mixed-case input with separators on both sides gave a two-run slug.
SlugShapeWitness ==
    /\ slugPc = "once"
    /\ slugInput = <<"B", " ", "7">>
    /\ slugOnce = <<"b", "-", "7">>

(***************************************************************************)
(* findMatchingSnippets (generators/search-pages.ts)                       *)
(***************************************************************************)

\* Array.prototype.join
RECURSIVE Join(_, _)
Join(parts, sep) ==
    IF parts = <<>> THEN <<>>
    ELSE IF Len(parts) = 1 THEN parts[1]
    ELSE parts[1] \o sep \o Join(Tail(parts), sep)

\* The characters of the class \s that occur in the model's strings.
IsWhitespace(c) == c \in {" ", "\t", "\n"}

\* s.split(/\s+/): cur is the piece being read, inRun tells that the
\* previous character was whitespace.  A string that starts or ends with
\* whitespace, and the empty string, yield an empty piece.
RECURSIVE SplitPieces(_, _, _)
SplitPieces(s, cur, inRun) ==
    IF s = <<>> THEN <<cur>>
    ELSE IF ~IsWhitespace(Head(s)) THEN SplitPieces(Tail(s), Append(cur, Head(s)), FALSE)
    ELSE IF inRun THEN SplitPieces(Tail(s), <<>>, TRUE)
    ELSE <<cur>> \o SplitPieces(Tail(s), <<>>, TRUE)

SplitWhitespace(s) == SplitPieces(s, <<>>, FALSE)

\* [purpose, description, ...features, name, displayName].join(" ").toLowerCase()
SearchableText(snippet) ==
    ToLowerCase(Join(<<snippet.purpose, snippet.description>> \o snippet.features
                         \o <<snippet.name, snippet.displayName>>, <<" ">>))

PhraseBonus == 10

WordBonus == 2

NameBonus == 5

\* for (const word of queryWords) if (text.includes(word)) score += 2
RECURSIVE WordMatchScore(_, _)
WordMatchScore(text, queryWords) ==
    IF queryWords = <<>> THEN 0
    ELSE (IF Includes(text, Head(queryWords)) THEN WordBonus ELSE 0)
             + WordMatchScore(text, Tail(queryWords))

\* The body of the map callback: the score of one snippet.
SnippetScore(snippet, queryLower, queryWords) ==
    LET text == SearchableText(snippet)
    IN  (IF Includes(text, queryLower) THEN PhraseBonus ELSE 0)
        + WordMatchScore(text, queryWords)
        + (IF Includes(ToLowerCase(snippet.name), queryLower) THEN NameBonus ELSE 0)

\* matches: one {snippet, score} per snippet, in input order.
SearchMatches(snippets, query) ==
    LET queryLower == ToLowerCase(query)
        queryWords == SplitWhitespace(queryLower)
    IN  [i \in DOMAIN snippets |->
            [snippet |-> snippets[i],
             score |-> SnippetScore(snippets[i], queryLower, queryWords)]]

\* Array.prototype.filter with (m) => m.score > 0
RECURSIVE FilterPositive(_)
FilterPositive(ms) ==
    IF ms = <<>> THEN <<>>
    ELSE IF Head(ms).score > 0 THEN <<Head(ms)>> \o FilterPositive(Tail(ms))
    ELSE FilterPositive(Tail(ms))

\* A sort that is not stable: an element goes before the elements of its
\* own score.
RECURSIVE InsertBeforeTies(_, _)
InsertBeforeTies(sorted, m) ==
    IF sorted = <<>> THEN <<m>>
    ELSE IF Head(sorted).score > m.score
         THEN <<Head(sorted)>> \o InsertBeforeTies(Tail(sorted), m)
         ELSE <<m>> \o sorted

\* Array.prototype.sort with (a, b) => b.score - a.score.  The sort is
\* stable: an element goes after every element whose score is not lower.
RECURSIVE InsertByScore(_, _)
InsertByScore(sorted, m) ==
    IF sorted = <<>> THEN <<m>>
    ELSE IF Head(sorted).score >= m.score
         THEN <<Head(sorted)>> \o InsertByScore(Tail(sorted), m)
         ELSE <<m>> \o sorted

RECURSIVE SortByScore(_)
SortByScore(ms) ==
    IF ms = <<>> THEN <<>>
    ELSE InsertByScore(SortByScore(SubSeq(ms, 1, Len(ms) - 1)), ms[Len(ms)])

findMatchingSnippets(snippets, query) ==
    SortByScore(FilterPositive(SearchMatches(snippets, query)))

(***************************************************************************)
(* findMatchingSnippets applied to a query and a snippet list, and applied *)
(* again after text was added to a snippet                                 *)
(***************************************************************************)

Snippet(id, name, displayName, description, purpose, features, output) ==
    [id |-> id, name |-> name, displayName |-> displayName,
     description |-> description, purpose |-> purpose,
     features |-> features, output |-> output, usage |-> <<>>,
     dependencies |-> <<>>, command |-> <<>>]

MaxQueryLen == 3

MaxEdits == 1

SearchAlphabet == {"a", "B", " "}

SearchQueries == StringsUpTo(SearchAlphabet, MaxQueryLen)

SearchSnippetPool ==
    {Snippet(<<"x">>, n, dn, d, p, f, <<>>) :
        n \in {<<>>, <<"a">>, <<"B">>, <<"a", "B">>},
        dn \in {<<>>, <<"A">>},
        d \in {<<>>, <<"b">>, <<"a", " ", "b">>},
        p \in {<<>>, <<"a">>, <<"B">>},
        f \in {<<>>, <<<<"a">>>>, <<<<"b">>, <<"a">>>>}}

SearchSmallPool ==
    {Snippet(<<"y">>, n, <<>>, d, <<>>, <<>>, <<>>) :
        n \in {<<>>, <<"a">>, <<"B">>, <<"a", "B">>},
        d \in {<<>>, <<"b">>}}

SearchSnippetLists ==
    {<<>>} \cup {<<s>> : s \in SearchSnippetPool}
           \cup {<<s, t>> : s \in SearchSmallPool, t \in SearchSmallPool}

\* The texts an edit of the content adds to a field.
AddedTexts == {<<"a">>, <<"B">>, <<" ", "b">>}

SearchInit ==
    /\ searchPc = "ready"
    /\ searchQuery \in SearchQueries
    /\ searchSnippets \in SearchSnippetLists
    /\ searchScores = <<>>
    /\ searchResult = <<>>
    /\ searchPrevScores = <<>>
    /\ searchEdits = 0
    /\ SlugIdle /\ ClassifyIdle /\ BuildIdle /\ PageIdle /\ CrumbIdle /\ LoadIdle /\ SourceIdle /\ MetaIdle /\ RenderIdle /\ RunIdle /\ MatchIdle /\ LdIdle

\* A query shaped like those of SEARCH_QUERIES: words separated by single
\* spaces, no whitespace at either end.
IsPlainQuery(q) ==
    LET words == SplitWhitespace(q)
    IN  /\ \A i \in DOMAIN words : words[i] # <<>>
        /\ Join(words, <<" ">>) = q

\* One snippet, so that the scores before and after an edit line up.
SearchEditInit ==
    /\ SearchInit
    /\ IsPlainQuery(searchQuery)
    /\ Len(searchSnippets) = 1

FindMatchingSnippets ==
    /\ searchPc = "ready"
    /\ searchScores' = [i \in DOMAIN searchSnippets |->
                           SearchMatches(searchSnippets, searchQuery)[i].score]
    /\ searchResult' = findMatchingSnippets(searchSnippets, searchQuery)
    /\ searchPc' = "searched"
    /\ UNCHANGED <<searchQuery, searchSnippets, searchPrevScores, searchEdits, exceptSearch>>

\* The content changes between two searches: text is appended to the
\* purpose or the description of a snippet, or a feature is added to it.
\* The name stays as it is.
AddSnippetText ==
    /\ searchPc = "searched"
    /\ searchEdits < MaxEdits
    /\ \E i \in DOMAIN searchSnippets, t \in AddedTexts :
         LET s == searchSnippets[i] IN
         \/ searchSnippets' = [searchSnippets EXCEPT ![i].purpose = s.purpose \o t]
         \/ searchSnippets' = [searchSnippets EXCEPT ![i].description = s.description \o t]
         \/ searchSnippets' = [searchSnippets EXCEPT ![i].features = Append(s.features, t)]
    /\ searchPrevScores' = searchScores
    /\ searchEdits' = searchEdits + 1
    /\ searchPc' = "ready"
    /\ UNCHANGED <<searchQuery, searchScores, searchResult, exceptSearch>>

SpecSearch == SearchInit /\ [][FindMatchingSnippets]_vars

SpecSearchEdit == SearchEditInit /\ [][FindMatchingSnippets \/ AddSnippetText]_vars

\* The words of a query: its maximal runs of characters that are not
\* whitespace, from left to right.
QueryWords(q) ==
    LET starts == SelectSeq([i \in DOMAIN q |-> i],
                            LAMBDA i : /\ ~IsWhitespace(q[i])
                                       /\ (i = 1 \/ IsWhitespace(q[i - 1])))
        EndOf(i) == CHOOSE j \in i..Len(q) :
                        /\ \A k \in i..j : ~IsWhitespace(q[k])
                        /\ (j = Len(q) \/ IsWhitespace(q[j + 1]))
    IN  [w \in DOMAIN starts |-> SubSeq(q, starts[w], EndOf(starts[w]))]

\* The score the stated rule gives a snippet for a query: 10 for the
\* lower-cased query as a contiguous substring of the searchable text, 2 for
\* each word of the query that is a substring of the text, 5 for the query
\* as a substring of the lower-cased name.
RuleScore(snippet, query) ==
    LET q == ToLowerCase(query)
        text == SearchableText(snippet)
        words == QueryWords(q)
    IN  (IF Includes(text, q) THEN 10 ELSE 0)
        + 2 * Cardinality({i \in DOMAIN words : Includes(text, words[i])})
        + (IF Includes(ToLowerCase(snippet.name), q) THEN 5 ELSE 0)

\* C6: the score of every snippet is exactly 10 (phrase) + 2 per query word
\* found + 5 (name), added without a cap, and the returned list holds exactly
\* the snippets whose score is greater than 0, each with that score.
SearchScoreRule ==
    searchPc = "searched" =>
        /\ \A i \in DOMAIN searchSnippets :
               searchScores[i] = RuleScore(searchSnippets[i], searchQuery)
        /\ \A j \in DOMAIN searchResult :
               /\ searchResult[j].score = RuleScore(searchResult[j].snippet, searchQuery)
               /\ searchResult[j].score > 0
        /\ Len(searchResult) =
               Cardinality({i \in DOMAIN searchSnippets :
                               RuleScore(searchSnippets[i], searchQuery) > 0})

\* The same rule for the queries made of words separated by single spaces,
\* as those of SEARCH_QUERIES are.
SearchScoreRuleOfPlainQueries == IsPlainQuery(searchQuery) => SearchScoreRule

\* C7: for a fixed query and a fixed name, adding text to the searchable text
\* of a snippet (an extra feature, or text appended to purpose or
\* description) never lowers its score.
SearchScoreMonotonic ==
    (searchPc = "searched" /\ searchEdits > 0) =>
        \A i \in DOMAIN searchScores : searchScores[i] >= searchPrevScores[i]

(***************************************************************************)
(* The fixed lists of the generators                                       *)
(***************************************************************************)

\* loadAllFrameworks: the fixed framework list (id and name).
loadAllFrameworks ==
    <<
      [id |-> <<"e","x","p","r","e","s","s">>,
       name |-> <<"E","x","p","r","e","s","s",".","j","s">>],
      [id |-> <<"h","o","n","o">>,
       name |-> <<"H","o","n","o">>],
      [id |-> <<"e","l","y","s","i","a">>,
       name |-> <<"E","l","y","s","i","a">>],
      [id |-> <<"f","a","s","t","i","f","y">>,
       name |-> <<"F","a","s","t","i","f","y">>],
      [id |-> <<"n","e","s","t">>,
       name |-> <<"N","e","s","t","J","S">>]
    >>

\* The framework pairs the comparison generator compares.
FRAMEWORK_PAIRS ==
    <<
      <<<<"e","x","p","r","e","s","s">>, <<"h","o","n","o">>>>,
      <<<<"e","x","p","r","e","s","s">>, <<"e","l","y","s","i","a">>>>,
      <<<<"e","x","p","r","e","s","s">>, <<"f","a","s","t","i","f","y">>>>,
      <<<<"e","x","p","r","e","s","s">>, <<"n","e","s","t">>>>,
      <<<<"h","o","n","o">>, <<"e","l","y","s","i","a">>>>,
      <<<<"h","o","n","o">>, <<"f","a","s","t","i","f","y">>>>,
      <<<<"h","o","n","o">>, <<"n","e","s","t">>>>,
      <<<<"e","l","y","s","i","a">>, <<"f","a","s","t","i","f","y">>>>,
      <<<<"e","l","y","s","i","a">>, <<"n","e","s","t">>>>,
      <<<<"f","a","s","t","i","f","y">>, <<"n","e","s","t">>>>
    >>

\* The tags a tag page is generated for.
TAGS ==
    <<
      <<"s","e","r","v","e","r">>,  \* "server"
      <<"b","a","c","k","e","n","d">>,  \* "backend"
      <<"a","p","i">>,  \* "api"
      <<"h","t","t","p">>,  \* "http"
      <<"a","u","t","h","e","n","t","i","c","a","t","i","o","n">>,  \* "authentication"
      <<"a","u","t","h","o","r","i","z","a","t","i","o","n">>,  \* "authorization"
      <<"j","w","t">>,  \* "jwt"
      <<"s","e","s","s","i","o","n","s">>,  \* "sessions"
      <<"r","b","a","c">>,  \* "rbac"
      <<"s","e","c","u","r","i","t","y">>,  \* "security"
      <<"c","o","r","s">>,  \* "cors"
      <<"h","e","l","m","e","t">>,  \* "helmet"
      <<"c","s","r","f">>,  \* "csrf"
      <<"r","a","t","e","-","l","i","m","i","t","i","n","g">>,  \* "rate-limiting"
      <<"s","e","c","u","r","i","t","y","-","h","e","a","d","e","r","s">>,  \* "security-headers"
      <<"m","i","d","d","l","e","w","a","r","e">>,  \* "middleware"
      <<"r","o","u","t","i","n","g">>,  \* "routing"
      <<"v","a","l","i","d","a","t","i","o","n">>,  \* "validation"
      <<"e","r","r","o","r","-","h","a","n","d","l","i","n","g">>,  \* "error-handling"
      <<"d","a","t","a","b","a","s","e">>,  \* "database"
      <<"o","r","m">>,  \* "orm"
      <<"t","r","a","n","s","a","c","t","i","o","n","s">>,  \* "transactions"
      <<"c","a","c","h","e">>,  \* "cache"
      <<"p","e","r","f","o","r","m","a","n","c","e">>,  \* "performance"
      <<"s","c","a","l","i","n","g">>,  \* "scaling"
      <<"l","o","a","d","-","b","a","l","a","n","c","i","n","g">>,  \* "load-balancing"
      <<"c","a","c","h","i","n","g","-","s","t","r","a","t","e","g","i","e","s">>,  \* "caching-strategies"
      <<"w","e","b","s","o","c","k","e","t">>,  \* "websocket"
      <<"s","s","e">>,  \* "sse"
      <<"f","i","l","e","-","u","p","l","o","a","d">>,  \* "file-upload"
      <<"m","u","l","t","i","p","a","r","t">>,  \* "multipart"
      <<"l","o","g","g","i","n","g">>,  \* "logging"
      <<"m","o","n","i","t","o","r","i","n","g">>,  \* "monitoring"
      <<"m","e","t","r","i","c","s">>,  \* "metrics"
      <<"t","r","a","c","i","n","g">>,  \* "tracing"
      <<"t","e","s","t","i","n","g">>,  \* "testing"
      <<"u","n","i","t","-","t","e","s","t","i","n","g">>,  \* "unit-testing"
      <<"i","n","t","e","g","r","a","t","i","o","n","-","t","e","s","t","i","n","g">>,  \* "integration-testing"
      <<"c","o","n","f","i","g","u","r","a","t","i","o","n">>,  \* "configuration"
      <<"e","n","v","i","r","o","n","m","e","n","t","-","v","a","r","i","a","b","l","e","s">>,  \* "environment-variables"
      <<"d","e","p","l","o","y","m","e","n","t">>,  \* "deployment"
      <<"p","r","o","d","u","c","t","i","o","n">>  \* "production"
    >>

\* extractTags: tag -> keywords, in the order of Object.entries.
tagPatterns ==
    <<
      \* authentication: "auth", "login", "jwt", "session", "password", "oauth", "token"
      [key |-> <<"a","u","t","h","e","n","t","i","c","a","t","i","o","n">>,
       keywords |-> <<
         <<"a","u","t","h">>, <<"l","o","g","i","n">>, <<"j","w","t">>,
         <<"s","e","s","s","i","o","n">>,
         <<"p","a","s","s","w","o","r","d">>, <<"o","a","u","t","h">>,
         <<"t","o","k","e","n">> >>],
      \* authorization: "permission", "role", "guard", "access", "admin", "authorize"
      [key |-> <<"a","u","t","h","o","r","i","z","a","t","i","o","n">>,
       keywords |-> <<
         <<"p","e","r","m","i","s","s","i","o","n">>, <<"r","o","l","e">>,
         <<"g","u","a","r","d">>, <<"a","c","c","e","s","s">>,
         <<"a","d","m","i","n">>, <<"a","u","t","h","o","r","i","z","e">> >>],
      \* cors: "cors", "cross-origin", "origin"
      [key |-> <<"c","o","r","s">>,
       keywords |-> <<
         <<"c","o","r","s">>,
         <<"c","r","o","s","s","-","o","r","i","g","i","n">>,
         <<"o","r","i","g","i","n">> >>],
      \* database: "db", "database", "sql", "prisma", "drizzle", "query", "repository"
      [key |-> <<"d","a","t","a","b","a","s","e">>,
       keywords |-> <<
         <<"d","b">>, <<"d","a","t","a","b","a","s","e">>, <<"s","q","l">>,
         <<"p","r","i","s","m","a">>, <<"d","r","i","z","z","l","e">>,
         <<"q","u","e","r","y">>, <<"r","e","p","o","s","i","t","o","r","y">> >>],
      \* error-handling: "error", "exception", "handle", "throw"
      [key |-> <<"e","r","r","o","r","-","h","a","n","d","l","i","n","g">>,
       keywords |-> <<
         <<"e","r","r","o","r">>, <<"e","x","c","e","p","t","i","o","n">>,
         <<"h","a","n","d","l","e">>, <<"t","h","r","o","w">> >>],
      \* file-upload: "upload", "file", "multipart", "s3", "storage"
      [key |-> <<"f","i","l","e","-","u","p","l","o","a","d">>,
       keywords |-> <<
         <<"u","p","l","o","a","d">>, <<"f","i","l","e">>,
         <<"m","u","l","t","i","p","a","r","t">>, <<"s","3">>,
         <<"s","t","o","r","a","g","e">> >>],
      \* jwt: "jwt", "token", "bearer"
      [key |-> <<"j","w","t">>,
       keywords |-> <<
         <<"j","w","t">>, <<"t","o","k","e","n">>,
         <<"b","e","a","r","e","r">> >>],
      \* logging: "log", "logger", "pino", "winston"
      [key |-> <<"l","o","g","g","i","n","g">>,
       keywords |-> <<
         <<"l","o","g">>, <<"l","o","g","g","e","r">>, <<"p","i","n","o">>,
         <<"w","i","n","s","t","o","n">> >>],
      \* middleware: "middleware", "hook", "intercept"
      [key |-> <<"m","i","d","d","l","e","w","a","r","e">>,
       keywords |-> <<
         <<"m","i","d","d","l","e","w","a","r","e">>, <<"h","o","o","k">>,
         <<"i","n","t","e","r","c","e","p","t">> >>],
      \* performance: "performance", "optimize", "cache", "benchmark"
      [key |-> <<"p","e","r","f","o","r","m","a","n","c","e">>,
       keywords |-> <<
         <<"p","e","r","f","o","r","m","a","n","c","e">>,
         <<"o","p","t","i","m","i","z","e">>, <<"c","a","c","h","e">>,
         <<"b","e","n","c","h","m","a","r","k">> >>],
      \* rate-limiting: "rate", "limit", "throttle", " quota"
      [key |-> <<"r","a","t","e","-","l","i","m","i","t","i","n","g">>,
       keywords |-> <<
         <<"r","a","t","e">>, <<"l","i","m","i","t">>,
         <<"t","h","r","o","t","t","l","e">>, <<" ","q","u","o","t","a">> >>],
      \* routing: "route", "router", "endpoint", "path"
      [key |-> <<"r","o","u","t","i","n","g">>,
       keywords |-> <<
         <<"r","o","u","t","e">>, <<"r","o","u","t","e","r">>,
         <<"e","n","d","p","o","i","n","t">>, <<"p","a","t","h">> >>],
      \* security: "security", "header", "csrf", "xss", "helmet"
      [key |-> <<"s","e","c","u","r","i","t","y">>,
       keywords |-> <<
         <<"s","e","c","u","r","i","t","y">>, <<"h","e","a","d","e","r">>,
         <<"c","s","r","f">>, <<"x","s","s">>, <<"h","e","l","m","e","t">> >>],
      \* testing: "test", "mock", "vitest", "jest", "unit"
      [key |-> <<"t","e","s","t","i","n","g">>,
       keywords |-> <<
         <<"t","e","s","t">>, <<"m","o","c","k">>,
         <<"v","i","t","e","s","t">>, <<"j","e","s","t">>,
         <<"u","n","i","t">> >>],
      \* validation: "validate", "schema", "input", "typebox", "zod"
      [key |-> <<"v","a","l","i","d","a","t","i","o","n">>,
       keywords |-> <<
         <<"v","a","l","i","d","a","t","e">>, <<"s","c","h","e","m","a">>,
         <<"i","n","p","u","t">>, <<"t","y","p","e","b","o","x">>,
         <<"z","o","d">> >>],
      \* websocket: "ws", "socket", " realtime", " realtime"
      [key |-> <<"w","e","b","s","o","c","k","e","t">>,
       keywords |-> <<
         <<"w","s">>, <<"s","o","c","k","e","t">>,
         <<" ","r","e","a","l","t","i","m","e">>,
         <<" ","r","e","a","l","t","i","m","e">> >>],
      \* cache: "cache", "redis", "memory"
      [key |-> <<"c","a","c","h","e">>,
       keywords |-> <<
         <<"c","a","c","h","e">>, <<"r","e","d","i","s">>,
         <<"m","e","m","o","r","y">> >>],
      \* monitoring: "monitor", "metrics", "telemetry", "opentelemetry"
      [key |-> <<"m","o","n","i","t","o","r","i","n","g">>,
       keywords |-> <<
         <<"m","o","n","i","t","o","r">>, <<"m","e","t","r","i","c","s">>,
         <<"t","e","l","e","m","e","t","r","y">>,
         <<"o","p","e","n","t","e","l","e","m","e","t","r","y">> >>],
      \* configuration: "config", "env", "environment", "dotenv"
      [key |-> <<"c","o","n","f","i","g","u","r","a","t","i","o","n">>,
       keywords |-> <<
         <<"c","o","n","f","i","g">>, <<"e","n","v">>,
         <<"e","n","v","i","r","o","n","m","e","n","t">>,
         <<"d","o","t","e","n","v">> >>]
    >>

\* The use cases a use-case page may be generated for.
COMMON_USE_CASES ==
    <<
      <<"a","u","t","h","e","n","t","i","c","a","t","i","o","n">>,  \* "authentication"
      <<"a","u","t","h","o","r","i","z","a","t","i","o","n">>,  \* "authorization"
      <<"r","o","l","e"," ","b","a","s","e","d"," ","a","c","c","e","s","s"," ","c","o","n","t","r","o","l">>,  \* "role based access control"
      <<"p","e","r","m","i","s","s","i","o","n"," ","m","a","n","a","g","e","m","e","n","t">>,  \* "permission management"
      <<"s","e","s","s","i","o","n"," ","m","a","n","a","g","e","m","e","n","t">>,  \* "session management"
      <<"t","o","k","e","n"," ","m","a","n","a","g","e","m","e","n","t">>,  \* "token management"
      <<"r","o","u","t","i","n","g">>,  \* "routing"
      <<"m","i","d","d","l","e","w","a","r","e">>,  \* "middleware"
      <<"r","e","q","u","e","s","t"," ","p","a","r","s","i","n","g">>,  \* "request parsing"
      <<"r","e","s","p","o","n","s","e"," ","t","r","a","n","s","f","o","r","m","a","t","i","o","n">>,  \* "response transformation"
      <<"a","p","i"," ","v","e","r","s","i","o","n","i","n","g">>,  \* "api versioning"
      <<"v","a","l","i","d","a","t","i","o","n">>,  \* "validation"
      <<"s","c","h","e","m","a"," ","v","a","l","i","d","a","t","i","o","n">>,  \* "schema validation"
      <<"i","n","p","u","t"," ","s","a","n","i","t","i","z","a","t","i","o","n">>,  \* "input sanitization"
      <<"e","r","r","o","r"," ","h","a","n","d","l","i","n","g">>,  \* "error handling"
      <<"g","l","o","b","a","l"," ","e","r","r","o","r"," ","h","a","n","d","l","i","n","g">>,  \* "global error handling"
      <<"c","o","r","s">>,  \* "cors"
      <<"c","s","r","f"," ","p","r","o","t","e","c","t","i","o","n">>,  \* "csrf protection"
      <<"s","e","c","u","r","i","t","y"," ","h","e","a","d","e","r","s">>,  \* "security headers"
      <<"r","a","t","e"," ","l","i","m","i","t","i","n","g">>,  \* "rate limiting"
      <<"b","r","u","t","e"," ","f","o","r","c","e"," ","p","r","o","t","e","c","t","i","o","n">>,  \* "brute force protection"
      <<"l","o","g","g","i","n","g">>,  \* "logging"
      <<"s","t","r","u","c","t","u","r","e","d"," ","l","o","g","g","i","n","g">>,  \* "structured logging"
      <<"r","e","q","u","e","s","t"," ","t","r","a","c","i","n","g">>,  \* "request tracing"
      <<"m","e","t","r","i","c","s">>,  \* "metrics"
      <<"h","e","a","l","t","h"," ","c","h","e","c","k","s">>,  \* "health checks"
      <<"d","a","t","a","b","a","s","e">>,  \* "database"
      <<"d","a","t","a","b","a","s","e"," ","m","i","g","r","a","t","i","o","n","s">>,  \* "database migrations"
      <<"t","r","a","n","s","a","c","t","i","o","n","s">>,  \* "transactions"
      <<"c","a","c","h","i","n","g">>,  \* "caching"
      <<"c","a","c","h","e"," ","i","n","v","a","l","i","d","a","t","i","o","n">>,  \* "cache invalidation"
      <<"w","e","b","s","o","c","k","e","t">>,  \* "websocket"
      <<"s","e","r","v","e","r"," ","s","e","n","t"," ","e","v","e","n","t","s">>,  \* "server sent events"
      <<"b","a","c","k","g","r","o","u","n","d"," ","j","o","b","s">>,  \* "background jobs"
      <<"m","e","s","s","a","g","e"," ","q","u","e","u","e","s">>,  \* "message queues"
      <<"f","i","l","e"," ","u","p","l","o","a","d">>,  \* "file upload"
      <<"f","i","l","e"," ","v","a","l","i","d","a","t","i","o","n">>,  \* "file validation"
      <<"i","m","a","g","e"," ","p","r","o","c","e","s","s","i","n","g">>,  \* "image processing"
      <<"c","l","o","u","d"," ","s","t","o","r","a","g","e">>,  \* "cloud storage"
      <<"c","o","m","p","r","e","s","s","i","o","n">>,  \* "compression"
      <<"r","e","s","p","o","n","s","e"," ","c","a","c","h","i","n","g">>,  \* "response caching"
      <<"l","o","a","d"," ","b","a","l","a","n","c","i","n","g">>,  \* "load balancing"
      <<"p","e","r","f","o","r","m","a","n","c","e"," ","o","p","t","i","m","i","z","a","t","i","o","n">>,  \* "performance optimization"
      <<"u","n","i","t"," ","t","e","s","t","i","n","g">>,  \* "unit testing"
      <<"i","n","t","e","g","r","a","t","i","o","n"," ","t","e","s","t","i","n","g">>,  \* "integration testing"
      <<"e","n","d"," ","t","o"," ","e","n","d"," ","t","e","s","t","i","n","g">>,  \* "end to end testing"
      <<"m","o","c","k","i","n","g">>,  \* "mocking"
      <<"t","e","s","t"," ","d","a","t","a"," ","s","e","e","d","i","n","g">>,  \* "test data seeding"
      <<"c","o","n","f","i","g","u","r","a","t","i","o","n"," ","m","a","n","a","g","e","m","e","n","t">>,  \* "configuration management"
      <<"e","n","v","i","r","o","n","m","e","n","t"," ","v","a","r","i","a","b","l","e","s">>,  \* "environment variables"
      <<"f","e","a","t","u","r","e"," ","f","l","a","g","s">>,  \* "feature flags"
      <<"g","r","a","c","e","f","u","l"," ","s","h","u","t","d","o","w","n">>,  \* "graceful shutdown"
      <<"p","r","o","d","u","c","t","i","o","n"," ","d","e","p","l","o","y","m","e","n","t">>  \* "production deployment"
    >>

\* extractUseCaseFromSnippet: use case -> keywords, in the order of Object.entries.
patterns ==
    <<
      \* authentication: "auth", "login", "jwt", "session", "password", "oauth"
      [key |-> <<"a","u","t","h","e","n","t","i","c","a","t","i","o","n">>,
       keywords |-> <<
         <<"a","u","t","h">>, <<"l","o","g","i","n">>, <<"j","w","t">>,
         <<"s","e","s","s","i","o","n">>,
         <<"p","a","s","s","w","o","r","d">>, <<"o","a","u","t","h">> >>],
      \* authorization: "permission", "role", "guard", "access", "admin"
      [key |-> <<"a","u","t","h","o","r","i","z","a","t","i","o","n">>,
       keywords |-> <<
         <<"p","e","r","m","i","s","s","i","o","n">>, <<"r","o","l","e">>,
         <<"g","u","a","r","d">>, <<"a","c","c","e","s","s">>,
         <<"a","d","m","i","n">> >>],
      \* logging: "log", "logger", "monitor", "trace"
      [key |-> <<"l","o","g","g","i","n","g">>,
       keywords |-> <<
         <<"l","o","g">>, <<"l","o","g","g","e","r">>,
         <<"m","o","n","i","t","o","r">>, <<"t","r","a","c","e">> >>],
      \* validation: "validate", "schema", "input", "type"
      [key |-> <<"v","a","l","i","d","a","t","i","o","n">>,
       keywords |-> <<
         <<"v","a","l","i","d","a","t","e">>, <<"s","c","h","e","m","a">>,
         <<"i","n","p","u","t">>, <<"t","y","p","e">> >>],
      \* error: "error", "exception", "handle"
      [key |-> <<"e","r","r","o","r">>,
       keywords |-> <<
         <<"e","r","r","o","r">>, <<"e","x","c","e","p","t","i","o","n">>,
         <<"h","a","n","d","l","e">> >>],
      \* rate: "rate", "limit", "throttle"
      [key |-> <<"r","a","t","e">>,
       keywords |-> <<
         <<"r","a","t","e">>, <<"l","i","m","i","t">>,
         <<"t","h","r","o","t","t","l","e">> >>],
      \* cors: "cors", "cross-origin", "origin"
      [key |-> <<"c","o","r","s">>,
       keywords |-> <<
         <<"c","o","r","s">>,
         <<"c","r","o","s","s","-","o","r","i","g","i","n">>,
         <<"o","r","i","g","i","n">> >>],
      \* database: "db", "database", "query", "sql", "prisma", "drizzle"
      [key |-> <<"d","a","t","a","b","a","s","e">>,
       keywords |-> <<
         <<"d","b">>, <<"d","a","t","a","b","a","s","e">>,
         <<"q","u","e","r","y">>, <<"s","q","l">>,
         <<"p","r","i","s","m","a">>, <<"d","r","i","z","z","l","e">> >>],
      \* cache: "cache", "redis", "memory"
      [key |-> <<"c","a","c","h","e">>,
       keywords |-> <<
         <<"c","a","c","h","e">>, <<"r","e","d","i","s">>,
         <<"m","e","m","o","r","y">> >>],
      \* file: "upload", "file", "multipart", "s3"
      [key |-> <<"f","i","l","e">>,
       keywords |-> <<
         <<"u","p","l","o","a","d">>, <<"f","i","l","e">>,
         <<"m","u","l","t","i","p","a","r","t">>, <<"s","3">> >>],
      \* websocket: "ws", "socket", "realtime", " realtime"
      [key |-> <<"w","e","b","s","o","c","k","e","t">>,
       keywords |-> <<
         <<"w","s">>, <<"s","o","c","k","e","t">>,
         <<"r","e","a","l","t","i","m","e">>,
         <<" ","r","e","a","l","t","i","m","e">> >>],
      \* testing: "test", "mock", "unit", "e2e"
      [key |-> <<"t","e","s","t","i","n","g">>,
       keywords |-> <<
         <<"t","e","s","t">>, <<"m","o","c","k">>, <<"u","n","i","t">>,
         <<"e","2","e">> >>],
      \* middleware: "middleware", "hook", "intercept"
      [key |-> <<"m","i","d","d","l","e","w","a","r","e">>,
       keywords |-> <<
         <<"m","i","d","d","l","e","w","a","r","e">>, <<"h","o","o","k">>,
         <<"i","n","t","e","r","c","e","p","t">> >>],
      \* routing: "route", "router", "endpoint"
      [key |-> <<"r","o","u","t","i","n","g">>,
       keywords |-> <<
         <<"r","o","u","t","e">>, <<"r","o","u","t","e","r">>,
         <<"e","n","d","p","o","i","n","t">> >>],
      \* security: "security", "header", "csrf", "xss"
      [key |-> <<"s","e","c","u","r","i","t","y">>,
       keywords |-> <<
         <<"s","e","c","u","r","i","t","y">>, <<"h","e","a","d","e","r">>,
         <<"c","s","r","f">>, <<"x","s","s">> >>]
    >>

\* The ids of the tutorial topics.
TUTORIAL_TOPICS ==
    <<
      <<"s","e","t","u","p","-","p","r","o","j","e","c","t">>,  \* "setup-project"
      <<"c","r","e","a","t","e","-","a","p","i">>,  \* "create-api"
      <<"a","d","d","-","a","u","t","h","e","n","t","i","c","a","t","i","o","n">>,  \* "add-authentication"
      <<"a","d","d","-","v","a","l","i","d","a","t","i","o","n">>,  \* "add-validation"
      <<"a","d","d","-","e","r","r","o","r","-","h","a","n","d","l","i","n","g">>,  \* "add-error-handling"
      <<"a","d","d","-","l","o","g","g","i","n","g">>,  \* "add-logging"
      <<"a","d","d","-","r","a","t","e","-","l","i","m","i","t","i","n","g">>,  \* "add-rate-limiting"
      <<"a","d","d","-","c","o","r","s">>,  \* "add-cors"
      <<"c","o","n","n","e","c","t","-","d","a","t","a","b","a","s","e">>,  \* "connect-database"
      <<"a","d","d","-","f","i","l","e","-","u","p","l","o","a","d">>,  \* "add-file-upload"
      <<"w","r","i","t","e","-","t","e","s","t","s">>,  \* "write-tests"
      <<"d","e","p","l","o","y","-","p","r","o","d","u","c","t","i","o","n">>  \* "deploy-production"
    >>

\* The ids of the design patterns.
PATTERNS ==
    <<
      <<"r","e","p","o","s","i","t","o","r","y","-","p","a","t","t","e","r","n">>,  \* "repository-pattern"
      <<"f","a","c","t","o","r","y","-","p","a","t","t","e","r","n">>,  \* "factory-pattern"
      <<"s","i","n","g","l","e","t","o","n","-","p","a","t","t","e","r","n">>,  \* "singleton-pattern"
      <<"s","t","r","a","t","e","g","y","-","p","a","t","t","e","r","n">>,  \* "strategy-pattern"
      <<"o","b","s","e","r","v","e","r","-","p","a","t","t","e","r","n">>,  \* "observer-pattern"
      <<"d","e","c","o","r","a","t","o","r","-","p","a","t","t","e","r","n">>,  \* "decorator-pattern"
      <<"m","i","d","d","l","e","w","a","r","e","-","p","a","t","t","e","r","n">>,  \* "middleware-pattern"
      <<"d","e","p","e","n","d","e","n","c","y","-","i","n","j","e","c","t","i","o","n">>,  \* "dependency-injection"
      <<"u","n","i","t","-","o","f","-","w","o","r","k">>,  \* "unit-of-work"
      <<" ","c","q","r","s">>  \* " cqrs"
    >>

\* The queries a search page is generated for.
SEARCH_QUERIES ==
    <<
      <<"e","x","p","r","e","s","s"," ","j","s"," ","m","i","d","d","l","e","w","a","r","e"," ","e","x","a","m","p","l","e">>,  \* "express js middleware example"
      <<"e","x","p","r","e","s","s"," ","j","s"," ","c","u","s","t","o","m"," ","m","i","d","d","l","e","w","a","r","e">>,  \* "express js custom middleware"
      <<"e","x","p","r","e","s","s"," ","j","s"," ","e","r","r","o","r"," ","h","a","n","d","l","i","n","g">>,  \* "express js error handling"
      <<"e","x","p","r","e","s","s"," ","j","s"," ","a","s","y","n","c"," ","e","r","r","o","r"," ","h","a","n","d","l","e","r">>,  \* "express js async error handler"
      <<"e","x","p","r","e","s","s"," ","j","s"," ","v","a","l","i","d","a","t","i","o","n">>,  \* "express js validation"
      <<"e","x","p","r","e","s","s"," ","j","s"," ","r","e","q","u","e","s","t"," ","v","a","l","i","d","a","t","i","o","n">>,  \* "express js request validation"
      <<"e","x","p","r","e","s","s"," ","j","s"," ","j","w","t"," ","a","u","t","h","e","n","t","i","c","a","t","i","o","n">>,  \* "express js jwt authentication"
      <<"e","x","p","r","e","s","s"," ","j","s"," ","o","a","u","t","h"," ","a","u","t","h","e","n","t","i","c","a","t","i","o","n">>,  \* "express js oauth authentication"
      <<"e","x","p","r","e","s","s"," ","j","s"," ","s","e","s","s","i","o","n"," ","m","a","n","a","g","e","m","e","n","t">>,  \* "express js session management"
      <<"e","x","p","r","e","s","s"," ","j","s"," ","c","o","r","s">>,  \* "express js cors"
      <<"e","x","p","r","e","s","s"," ","j","s"," ","r","a","t","e"," ","l","i","m","i","t","i","n","g">>,  \* "express js rate limiting"
      <<"e","x","p","r","e","s","s"," ","j","s"," ","l","o","g","g","i","n","g">>,  \* "express js logging"
      <<"e","x","p","r","e","s","s"," ","j","s"," ","m","o","r","g","a","n"," ","l","o","g","g","i","n","g">>,  \* "express js morgan logging"
      <<"e","x","p","r","e","s","s"," ","j","s"," ","d","a","t","a","b","a","s","e"," ","c","o","n","n","e","c","t","i","o","n">>,  \* "express js database connection"
      <<"e","x","p","r","e","s","s"," ","j","s"," ","m","o","n","g","o","d","b"," ","i","n","t","e","g","r","a","t","i","o","n">>,  \* "express js mongodb integration"
      <<"e","x","p","r","e","s","s"," ","j","s"," ","p","o","s","t","g","r","e","s","q","l"," ","i","n","t","e","g","r","a","t","i","o","n">>,  \* "express js postgresql integration"
      <<"e","x","p","r","e","s","s"," ","j","s"," ","p","r","i","s","m","a"," ","e","x","a","m","p","l","e">>,  \* "express js prisma example"
      <<"e","x","p","r","e","s","s"," ","j","s"," ","s","e","q","u","e","l","i","z","e"," ","e","x","a","m","p","l","e">>,  \* "express js sequelize example"
      <<"e","x","p","r","e","s","s"," ","j","s"," ","f","i","l","e"," ","u","p","l","o","a","d">>,  \* "express js file upload"
      <<"e","x","p","r","e","s","s"," ","j","s"," ","m","u","l","t","e","r"," ","e","x","a","m","p","l","e">>,  \* "express js multer example"
      <<"e","x","p","r","e","s","s"," ","j","s"," ","i","m","a","g","e"," ","u","p","l","o","a","d">>,  \* "express js image upload"
      <<"e","x","p","r","e","s","s"," ","j","s"," ","w","e","b","s","o","c","k","e","t">>,  \* "express js websocket"
      <<"e","x","p","r","e","s","s"," ","j","s"," ","s","o","c","k","e","t",".","i","o">>,  \* "express js socket.io"
      <<"e","x","p","r","e","s","s"," ","j","s"," ","a","p","i"," ","v","e","r","s","i","o","n","i","n","g">>,  \* "express js api versioning"
      <<"e","x","p","r","e","s","s"," ","j","s"," ","h","e","a","l","t","h"," ","c","h","e","c","k">>,  \* "express js health check"
      <<"e","x","p","r","e","s","s"," ","j","s"," ","s","e","c","u","r","i","t","y"," ","b","e","s","t"," ","p","r","a","c","t","i","c","e","s">>,  \* "express js security best practices"
      <<"e","x","p","r","e","s","s"," ","j","s"," ","h","e","l","m","e","t">>,  \* "express js helmet"
      <<"e","x","p","r","e","s","s"," ","j","s"," ","c","s","r","f"," ","p","r","o","t","e","c","t","i","o","n">>,  \* "express js csrf protection"
      <<"e","x","p","r","e","s","s"," ","j","s"," ","u","n","i","t"," ","t","e","s","t","i","n","g">>,  \* "express js unit testing"
      <<"e","x","p","r","e","s","s"," ","j","s"," ","j","e","s","t"," ","t","e","s","t","i","n","g">>,  \* "express js jest testing"
      <<"e","x","p","r","e","s","s"," ","j","s"," ","s","u","p","e","r","t","e","s","t"," ","e","x","a","m","p","l","e">>,  \* "express js supertest example"
      <<"e","x","p","r","e","s","s"," ","j","s"," ","p","r","o","d","u","c","t","i","o","n"," ","s","e","t","u","p">>,  \* "express js production setup"
      <<"h","o","n","o"," ","j","s"," ","m","i","d","d","l","e","w","a","r","e">>,  \* "hono js middleware"
      <<"h","o","n","o"," ","j","s"," ","c","u","s","t","o","m"," ","m","i","d","d","l","e","w","a","r","e">>,  \* "hono js custom middleware"
      <<"h","o","n","o"," ","j","s"," ","a","u","t","h","e","n","t","i","c","a","t","i","o","n">>,  \* "hono js authentication"
      <<"h","o","n","o"," ","j","s"," ","j","w","t"," ","a","u","t","h","e","n","t","i","c","a","t","i","o","n">>,  \* "hono js jwt authentication"
      <<"h","o","n","o"," ","j","s"," ","o","a","u","t","h">>,  \* "hono js oauth"
      <<"h","o","n","o"," ","j","s"," ","c","o","r","s">>,  \* "hono js cors"
      <<"h","o","n","o"," ","j","s"," ","r","a","t","e"," ","l","i","m","i","t","e","r">>,  \* "hono js rate limiter"
      <<"h","o","n","o"," ","j","s"," ","l","o","g","g","i","n","g">>,  \* "hono js logging"
      <<"h","o","n","o"," ","j","s"," ","e","r","r","o","r"," ","h","a","n","d","l","i","n","g">>,  \* "hono js error handling"
      <<"h","o","n","o"," ","j","s"," ","g","l","o","b","a","l"," ","e","r","r","o","r"," ","h","a","n","d","l","e","r">>,  \* "hono js global error handler"
      <<"h","o","n","o"," ","j","s"," ","v","a","l","i","d","a","t","i","o","n">>,  \* "hono js validation"
      <<"h","o","n","o"," ","j","s"," ","z","o","d"," ","v","a","l","i","d","a","t","i","o","n">>,  \* "hono js zod validation"
      <<"h","o","n","o"," ","j","s"," ","d","a","t","a","b","a","s","e">>,  \* "hono js database"
      <<"h","o","n","o"," ","j","s"," ","d","r","i","z","z","l","e"," ","o","r","m">>,  \* "hono js drizzle orm"
      <<"h","o","n","o"," ","j","s"," ","p","r","i","s","m","a">>,  \* "hono js prisma"
      <<"h","o","n","o"," ","j","s"," ","c","l","o","u","d","f","l","a","r","e"," ","w","o","r","k","e","r","s">>,  \* "hono js cloudflare workers"
      <<"h","o","n","o"," ","j","s"," ","b","u","n"," ","r","u","n","t","i","m","e">>,  \* "hono js bun runtime"
      <<"h","o","n","o"," ","j","s"," ","d","e","n","o"," ","r","u","n","t","i","m","e">>,  \* "hono js deno runtime"
      <<"h","o","n","o"," ","j","s"," ","f","i","l","e"," ","u","p","l","o","a","d">>,  \* "hono js file upload"
      <<"h","o","n","o"," ","j","s"," ","m","u","l","t","i","p","a","r","t"," ","f","o","r","m">>,  \* "hono js multipart form"
      <<"h","o","n","o"," ","j","s"," ","t","e","s","t","i","n","g">>,  \* "hono js testing"
      <<"h","o","n","o"," ","j","s"," ","u","n","i","t"," ","t","e","s","t","s">>,  \* "hono js unit tests"
      <<"h","o","n","o"," ","j","s"," ","a","p","i"," ","v","e","r","s","i","o","n","i","n","g">>,  \* "hono js api versioning"
      <<"h","o","n","o"," ","j","s"," ","s","e","c","u","r","i","t","y"," ","h","e","a","d","e","r","s">>,  \* "hono js security headers"
      <<"h","o","n","o"," ","j","s"," ","p","e","r","f","o","r","m","a","n","c","e">>,  \* "hono js performance"
      <<"h","o","n","o"," ","j","s"," ","e","d","g","e"," ","f","u","n","c","t","i","o","n","s">>,  \* "hono js edge functions"
      <<"e","l","y","s","i","a"," ","j","s"," ","g","e","t","t","i","n","g"," ","s","t","a","r","t","e","d">>,  \* "elysia js getting started"
      <<"e","l","y","s","i","a"," ","j","s"," ","m","i","d","d","l","e","w","a","r","e">>,  \* "elysia js middleware"
      <<"e","l","y","s","i","a"," ","j","s"," ","p","l","u","g","i","n"," ","e","x","a","m","p","l","e">>,  \* "elysia js plugin example"
      <<"e","l","y","s","i","a"," ","j","s"," ","j","w","t">>,  \* "elysia js jwt"
      <<"e","l","y","s","i","a"," ","j","s"," ","a","u","t","h","e","n","t","i","c","a","t","i","o","n">>,  \* "elysia js authentication"
      <<"e","l","y","s","i","a"," ","j","s"," ","v","a","l","i","d","a","t","i","o","n">>,  \* "elysia js validation"
      <<"e","l","y","s","i","a"," ","j","s"," ","t","y","p","e","b","o","x"," ","v","a","l","i","d","a","t","i","o","n">>,  \* "elysia js typebox validation"
      <<"e","l","y","s","i","a"," ","j","s"," ","e","r","r","o","r"," ","h","a","n","d","l","e","r">>,  \* "elysia js error handler"
      <<"e","l","y","s","i","a"," ","j","s"," ","g","l","o","b","a","l"," ","e","r","r","o","r"," ","h","a","n","d","l","i","n","g">>,  \* "elysia js global error handling"
      <<"e","l","y","s","i","a"," ","j","s"," ","c","o","r","s">>,  \* "elysia js cors"
      <<"e","l","y","s","i","a"," ","j","s"," ","s","e","c","u","r","i","t","y"," ","h","e","a","d","e","r","s">>,  \* "elysia js security headers"
      <<"e","l","y","s","i","a"," ","j","s"," ","r","a","t","e"," ","l","i","m","i","t","i","n","g">>,  \* "elysia js rate limiting"
      <<"e","l","y","s","i","a"," ","j","s"," ","l","o","g","g","i","n","g">>,  \* "elysia js logging"
      <<"e","l","y","s","i","a"," ","j","s"," ","r","e","q","u","e","s","t"," ","l","i","f","e","c","y","c","l","e">>,  \* "elysia js request lifecycle"
      <<"e","l","y","s","i","a"," ","j","s"," ","d","a","t","a","b","a","s","e"," ","i","n","t","e","g","r","a","t","i","o","n">>,  \* "elysia js database integration"
      <<"e","l","y","s","i","a"," ","j","s"," ","p","r","i","s","m","a">>,  \* "elysia js prisma"
      <<"e","l","y","s","i","a"," ","j","s"," ","d","r","i","z","z","l","e"," ","o","r","m">>,  \* "elysia js drizzle orm"
      <<"e","l","y","s","i","a"," ","j","s"," ","w","e","b","s","o","c","k","e","t">>,  \* "elysia js websocket"
      <<"e","l","y","s","i","a"," ","j","s"," ","r","e","a","l"," ","t","i","m","e">>,  \* "elysia js real time"
      <<"e","l","y","s","i","a"," ","j","s"," ","f","i","l","e"," ","u","p","l","o","a","d">>,  \* "elysia js file upload"
      <<"e","l","y","s","i","a"," ","j","s"," ","t","e","s","t","i","n","g">>,  \* "elysia js testing"
      <<"e","l","y","s","i","a"," ","j","s"," ","b","u","n"," ","p","e","r","f","o","r","m","a","n","c","e">>,  \* "elysia js bun performance"
      <<"e","l","y","s","i","a"," ","j","s"," ","p","r","o","d","u","c","t","i","o","n"," ","d","e","p","l","o","y","m","e","n","t">>,  \* "elysia js production deployment"
      <<"f","a","s","t","i","f","y"," ","g","e","t","t","i","n","g"," ","s","t","a","r","t","e","d">>,  \* "fastify getting started"
      <<"f","a","s","t","i","f","y"," ","m","i","d","d","l","e","w","a","r","e">>,  \* "fastify middleware"
      <<"f","a","s","t","i","f","y"," ","h","o","o","k","s">>,  \* "fastify hooks"
      <<"f","a","s","t","i","f","y"," ","a","u","t","h","e","n","t","i","c","a","t","i","o","n">>,  \* "fastify authentication"
      <<"f","a","s","t","i","f","y"," ","j","w","t">>,  \* "fastify jwt"
      <<"f","a","s","t","i","f","y"," ","o","a","u","t","h">>,  \* "fastify oauth"
      <<"f","a","s","t","i","f","y"," ","r","a","t","e"," ","l","i","m","i","t","i","n","g">>,  \* "fastify rate limiting"
      <<"f","a","s","t","i","f","y"," ","v","a","l","i","d","a","t","i","o","n">>,  \* "fastify validation"
      <<"f","a","s","t","i","f","y"," ","s","c","h","e","m","a"," ","v","a","l","i","d","a","t","i","o","n">>,  \* "fastify schema validation"
      <<"f","a","s","t","i","f","y"," ","e","r","r","o","r"," ","h","a","n","d","l","i","n","g">>,  \* "fastify error handling"
      <<"f","a","s","t","i","f","y"," ","c","u","s","t","o","m"," ","e","r","r","o","r"," ","h","a","n","d","l","e","r">>,  \* "fastify custom error handler"
      <<"f","a","s","t","i","f","y"," ","l","o","g","g","i","n","g">>,  \* "fastify logging"
      <<"f","a","s","t","i","f","y"," ","p","i","n","o"," ","l","o","g","g","i","n","g">>,  \* "fastify pino logging"
      <<"f","a","s","t","i","f","y"," ","d","a","t","a","b","a","s","e"," ","i","n","t","e","g","r","a","t","i","o","n">>,  \* "fastify database integration"
      <<"f","a","s","t","i","f","y"," ","p","r","i","s","m","a">>,  \* "fastify prisma"
      <<"f","a","s","t","i","f","y"," ","m","o","n","g","o","d","b">>,  \* "fastify mongodb"
      <<"f","a","s","t","i","f","y"," ","p","o","s","t","g","r","e","s","q","l">>,  \* "fastify postgresql"
      <<"f","a","s","t","i","f","y"," ","w","e","b","s","o","c","k","e","t">>,  \* "fastify websocket"
      <<"f","a","s","t","i","f","y"," ","s","o","c","k","e","t",".","i","o">>,  \* "fastify socket.io"
      <<"f","a","s","t","i","f","y"," ","f","i","l","e"," ","u","p","l","o","a","d">>,  \* "fastify file upload"
      <<"f","a","s","t","i","f","y"," ","m","u","l","t","i","p","a","r","t">>,  \* "fastify multipart"
      <<"f","a","s","t","i","f","y"," ","t","e","s","t","i","n","g">>,  \* "fastify testing"
      <<"f","a","s","t","i","f","y"," ","j","e","s","t">>,  \* "fastify jest"
      <<"f","a","s","t","i","f","y"," ","a","p","i"," ","v","e","r","s","i","o","n","i","n","g">>,  \* "fastify api versioning"
      <<"f","a","s","t","i","f","y"," ","s","e","c","u","r","i","t","y"," ","h","e","a","d","e","r","s">>,  \* "fastify security headers"
      <<"f","a","s","t","i","f","y"," ","h","e","l","m","e","t">>,  \* "fastify helmet"
      <<"f","a","s","t","i","f","y"," ","p","e","r","f","o","r","m","a","n","c","e"," ","t","u","n","i","n","g">>,  \* "fastify performance tuning"
      <<"f","a","s","t","i","f","y"," ","p","r","o","d","u","c","t","i","o","n"," ","b","e","s","t"," ","p","r","a","c","t","i","c","e","s">>,  \* "fastify production best practices"
      <<"n","e","s","t","j","s"," ","c","o","n","t","r","o","l","l","e","r">>,  \* "nestjs controller"
      <<"n","e","s","t","j","s"," ","s","e","r","v","i","c","e">>,  \* "nestjs service"
      <<"n","e","s","t","j","s"," ","m","o","d","u","l","e">>,  \* "nestjs module"
      <<"n","e","s","t","j","s"," ","p","r","o","v","i","d","e","r">>,  \* "nestjs provider"
      <<"n","e","s","t","j","s"," ","d","e","p","e","n","d","e","n","c","y"," ","i","n","j","e","c","t","i","o","n">>,  \* "nestjs dependency injection"
      <<"n","e","s","t","j","s"," ","g","u","a","r","d">>,  \* "nestjs guard"
      <<"n","e","s","t","j","s"," ","a","u","t","h"," ","g","u","a","r","d">>,  \* "nestjs auth guard"
      <<"n","e","s","t","j","s"," ","j","w","t"," ","a","u","t","h","e","n","t","i","c","a","t","i","o","n">>,  \* "nestjs jwt authentication"
      <<"n","e","s","t","j","s"," ","p","a","s","s","p","o","r","t">>,  \* "nestjs passport"
      <<"n","e","s","t","j","s"," ","i","n","t","e","r","c","e","p","t","o","r">>,  \* "nestjs interceptor"
      <<"n","e","s","t","j","s"," ","l","o","g","g","i","n","g"," ","i","n","t","e","r","c","e","p","t","o","r">>,  \* "nestjs logging interceptor"
      <<"n","e","s","t","j","s"," ","p","i","p","e">>,  \* "nestjs pipe"
      <<"n","e","s","t","j","s"," ","v","a","l","i","d","a","t","i","o","n"," ","p","i","p","e">>,  \* "nestjs validation pipe"
      <<"n","e","s","t","j","s"," ","c","u","s","t","o","m"," ","d","e","c","o","r","a","t","o","r">>,  \* "nestjs custom decorator"
      <<"n","e","s","t","j","s"," ","e","x","c","e","p","t","i","o","n"," ","f","i","l","t","e","r">>,  \* "nestjs exception filter"
      <<"n","e","s","t","j","s"," ","g","l","o","b","a","l"," ","e","r","r","o","r"," ","h","a","n","d","l","i","n","g">>,  \* "nestjs global error handling"
      <<"n","e","s","t","j","s"," ","m","i","d","d","l","e","w","a","r","e">>,  \* "nestjs middleware"
      <<"n","e","s","t","j","s"," ","r","a","t","e"," ","l","i","m","i","t","i","n","g">>,  \* "nestjs rate limiting"
      <<"n","e","s","t","j","s"," ","t","h","r","o","t","t","l","e","r">>,  \* "nestjs throttler"
      <<"n","e","s","t","j","s"," ","c","o","r","s">>,  \* "nestjs cors"
      <<"n","e","s","t","j","s"," ","d","a","t","a","b","a","s","e"," ","i","n","t","e","g","r","a","t","i","o","n">>,  \* "nestjs database integration"
      <<"n","e","s","t","j","s"," ","p","r","i","s","m","a">>,  \* "nestjs prisma"
      <<"n","e","s","t","j","s"," ","t","y","p","e","o","r","m">>,  \* "nestjs typeorm"
      <<"n","e","s","t","j","s"," ","m","o","n","g","o","o","s","e">>,  \* "nestjs mongoose"
      <<"n","e","s","t","j","s"," ","w","e","b","s","o","c","k","e","t"," ","g","a","t","e","w","a","y">>,  \* "nestjs websocket gateway"
      <<"n","e","s","t","j","s"," ","g","r","a","p","h","q","l">>,  \* "nestjs graphql"
      <<"n","e","s","t","j","s"," ","r","e","s","t"," ","a","p","i"," ","b","e","s","t"," ","p","r","a","c","t","i","c","e","s">>,  \* "nestjs rest api best practices"
      <<"n","e","s","t","j","s"," ","t","e","s","t","i","n","g">>,  \* "nestjs testing"
      <<"n","e","s","t","j","s"," ","e","2","e"," ","t","e","s","t","i","n","g">>,  \* "nestjs e2e testing"
      <<"n","e","s","t","j","s"," ","j","e","s","t">>,  \* "nestjs jest"
      <<"n","e","s","t","j","s"," ","p","r","o","d","u","c","t","i","o","n"," ","d","e","p","l","o","y","m","e","n","t">>,  \* "nestjs production deployment"
      <<"n","e","s","t","j","s"," ","m","i","c","r","o","s","e","r","v","i","c","e","s">>,  \* "nestjs microservices"
      <<"n","e","s","t","j","s"," ","k","a","f","k","a">>,  \* "nestjs kafka"
      <<"n","e","s","t","j","s"," ","r","e","d","i","s"," ","c","a","c","h","e">>  \* "nestjs redis cache"
    >>

(***************************************************************************)
(* extractTags and extractUseCaseFromSnippet (tag-pages.ts,                *)
(* use-case-pages.ts)                                                      *)
(***************************************************************************)

general == <<"g","e","n","e","r","a","l">>

\* for (const [key, keywords] of Object.entries(table))
\*   if (keywords.some((kw) => text.includes(kw))) result.push(key)
RECURSIVE MatchedKeys(_, _)
MatchedKeys(table, text) ==
    IF table = <<>> THEN <<>>
    ELSE (IF \E j \in DOMAIN Head(table).keywords :
                 Includes(text, Head(table).keywords[j])
          THEN <<Head(table).key>> ELSE <<>>)
         \o MatchedKeys(Tail(table), text)

\* [purpose, description, ...features, name, displayName, output]
\*   .join(" ").toLowerCase()
TagText(snippet) ==
    ToLowerCase(Join(<<snippet.purpose, snippet.description>> \o snippet.features
                         \o <<snippet.name, snippet.displayName, snippet.output>>,
                     <<" ">>))

\* An extractTags that puts every snippet in the general bucket as well.
extractTagsWithGeneral(snippet) ==
    Append(MatchedKeys(tagPatterns, TagText(snippet)), general)

extractTags(snippet) ==
    LET tags == MatchedKeys(tagPatterns, TagText(snippet))
    IN  IF Len(tags) > 0 THEN tags ELSE <<general>>

\* [purpose, description, ...features].join(" "), each part lower-cased
UseCaseText(snippet) ==
    Join(<<ToLowerCase(snippet.purpose), ToLowerCase(snippet.description)>>
             \o [i \in DOMAIN snippet.features |-> ToLowerCase(snippet.features[i])],
         <<" ">>)

extractUseCaseFromSnippet(snippet) ==
    LET useCases == MatchedKeys(patterns, UseCaseText(snippet))
    IN  IF Len(useCases) > 0 THEN useCases ELSE <<general>>

(***************************************************************************)
(* The two extractors applied to one snippet                               *)
(***************************************************************************)

\* The purposes, descriptions, feature lists, names and output paths of the
\* snippets classified:
\*   "", "JWT login", "Upload a file", "Hello"
ClassifyPurposes ==
    {<<>>,
     <<"J","W","T"," ","l","o","g","i","n">>,
     <<"U","p","l","o","a","d"," ","a"," ","f","i","l","e">>,
     <<"H","e","l","l","o">>}

\* descriptions
\*   "", "CORS origin", "typed", "Greets"
ClassifyDescriptions ==
    {<<>>,
     <<"C","O","R","S"," ","o","r","i","g","i","n">>,
     <<"t","y","p","e","d">>,
     <<"G","r","e","e","t","s">>}

\* feature lists
\*   [], ["Realtime"], ["fast", "Redis"]
ClassifyFeatures ==
    {<<>>, <<<<"R","e","a","l","t","i","m","e">>>>, <<<<"f","a","s","t">>, <<"R","e","d","i","s">>>>}

\* names
\*   "cors", "misc"
ClassifyNames ==
    {<<"c","o","r","s">>,
     <<"m","i","s","c">>}

\* output paths
\*   "", "src/config/env.ts", "lib.ts"
ClassifyOutputs ==
    {<<>>,
     <<"s","r","c","/","c","o","n","f","i","g","/","e","n","v",".","t","s">>,
     <<"l","i","b",".","t","s">>}

ClassifySnippets ==
    {Snippet(name, name, ToLowerCase(name), description, purpose, features, output) :
        name \in ClassifyNames, description \in ClassifyDescriptions,
        purpose \in ClassifyPurposes, features \in ClassifyFeatures,
        output \in ClassifyOutputs}

ClassifyInit ==
    /\ classifySnippet \in ClassifySnippets
    /\ classifyDone = {}
    /\ classifyTags = <<>>
    /\ classifyUseCases = <<>>
    /\ SlugIdle /\ SearchIdle /\ BuildIdle /\ PageIdle /\ CrumbIdle /\ LoadIdle /\ SourceIdle /\ MetaIdle /\ RenderIdle /\ RunIdle /\ MatchIdle /\ LdIdle

ExtractTags ==
    /\ "tags" \notin classifyDone
    /\ classifyTags' = extractTags(classifySnippet)
    /\ classifyDone' = classifyDone \cup {"tags"}
    /\ UNCHANGED <<classifySnippet, classifyUseCases, exceptClassify>>

ExtractUseCases ==
    /\ "useCases" \notin classifyDone
    /\ classifyUseCases' = extractUseCaseFromSnippet(classifySnippet)
    /\ classifyDone' = classifyDone \cup {"useCases"}
    /\ UNCHANGED <<classifySnippet, classifyTags, exceptClassify>>

SpecClassify == ClassifyInit /\ [][ExtractTags \/ ExtractUseCases]_vars

\* The keys of a table that have a keyword occurring in the text.
MatchedSet(table, text) ==
    {table[i].key : i \in {k \in DOMAIN table :
        \E j \in DOMAIN table[k].keywords : Includes(text, table[k].keywords[j])}}

\* The list holds exactly the keys of the set, each once.
ListsExactly(list, keys) ==
    /\ {list[i] : i \in DOMAIN list} = keys
    /\ Len(list) = Cardinality(keys)

FallbackIffNoMatch(result, matched) ==
    /\ (result = <<general>>) <=> (matched = {})
    /\ matched # {} => ListsExactly(result, matched)
    /\ \A i \in DOMAIN result : result[i] = general => Len(result) = 1

\* C8: each extractor returns ["general"] exactly when no keyword list of
\* its table has a keyword occurring in the text it builds from the
\* snippet; otherwise it returns exactly the keys whose list matched, and
\* "general" never stands beside a matched key.
ExtractorsFallback ==
    /\ "tags" \in classifyDone =>
           FallbackIffNoMatch(classifyTags, MatchedSet(tagPatterns, TagText(classifySnippet)))
    /\ "useCases" \in classifyDone =>
           FallbackIffNoMatch(classifyUseCases,
                              MatchedSet(patterns, UseCaseText(classifySnippet)))

\* A snippet matched by the tag table only through its output path
\* ("src/config/env.ts" holds "config"), and by no use-case list.
ExtractorsFallbackWitness ==
    /\ classifyDone = {"tags", "useCases"}
    /\ classifyTags = <<<<"c","o","n","f","i","g","u","r","a","t","i","o","n">>>>
    /\ classifyUseCases = <<general>>

(***************************************************************************)
(* Page paths and page metadata (generators, utils/seo-metadata.ts)        *)
(***************************************************************************)

\* The site origin.  Its text is in constant.js; no rule depends on it.
SITE_URL == <<"https://hanma.dev">>

\* join(process.cwd(), "../../dist/seo"): an absolute path, whose first
\* element here stands for the directory two levels above the working one.
OUTPUT_DIR == <<"/repo">> \o <<"/","d","i","s","t","/","s","e","o">>

RECURSIVE DropEmpty(_)
DropEmpty(parts) ==
    IF parts = <<>> THEN <<>>
    ELSE (IF Head(parts) = <<>> THEN <<>> ELSE <<Head(parts)>>) \o DropEmpty(Tail(parts))

\* path.join of segments that hold no separator and no dot segment: the
\* non-empty segments joined by "/".
PathJoin(segments) == Join(DropEmpty(segments), <<"/">>)

\* A template literal holding an absent context field reads "undefined".
Field(context, f) ==
    IF f \in DOMAIN context THEN context[f] ELSE <<"u","n","d","e","f","i","n","e","d">>

\* generateMetadata: the canonical URL of each page type.
Canonical(pageType, context) ==
    CASE pageType = "framework" ->
             SITE_URL \o <<"/","f","r","a","m","e","w","o","r","k","/">> \o Field(context, "framework")
      [] pageType = "category" ->
             SITE_URL \o <<"/","f","r","a","m","e","w","o","r","k","/">> \o Field(context, "framework")
                      \o <<"/">> \o Field(context, "category")
      [] pageType = "snippet" ->
             SITE_URL \o <<"/","s","n","i","p","p","e","t","/">> \o Field(context, "framework")
                      \o <<"/">> \o Field(context, "category")
                      \o <<"/">> \o Field(context, "snippet")
      [] pageType = "useCase" ->
             SITE_URL \o <<"/","u","s","e","-","c","a","s","e","/">> \o Field(context, "useCase")
      [] pageType = "guide" ->
             SITE_URL \o <<"/","g","u","i","d","e","/">> \o Field(context, "guide")
      [] pageType = "pattern" ->
             SITE_URL \o <<"/","p","a","t","t","e","r","n","/">> \o Field(context, "pattern")
      [] pageType = "tag" ->
             SITE_URL \o <<"/","t","a","g","/">> \o Field(context, "tag")
      [] pageType = "search" ->
             SITE_URL \o <<"/","s","e","a","r","c","h","/">> \o Field(context, "query")
      [] pageType = "home" -> SITE_URL

\* Of the metadata of a page of the build, the model keeps the canonical
\* URL, which the additional data does not enter.
CanonicalMetadata(pageType, context) ==
    [canonical |-> Canonical(pageType, context)]

\* A GeneratedPage.  Of the markup, content keeps the breadcrumb navigation
\* of the page, the snippet grid of a category page, the snippets of a
\* use-case page and the comparisons of a comparison page.
GeneratedPage(path, content, metadata) ==
    [path |-> path, content |-> content, metadata |-> metadata]

\* BuildStats without the build time.
BuildStats(type, pages) ==
    [totalPages |-> Len(pages), pagesByType |-> (type :> Len(pages))]

\* Array.prototype.flatMap over a list of lists
RECURSIVE Flatten(_)
Flatten(lists) ==
    IF lists = <<>> THEN <<>> ELSE Head(lists) \o Flatten(Tail(lists))

(***************************************************************************)
(* The markup layer (utils/content-loader.ts, HTML template utilities).    *)
(* A document is a string; the templates are written out character by      *)
(* character, without the indentation of the template literals.            *)
(***************************************************************************)

\* String.prototype.replace(/c/g, by) for a one-character pattern.
RECURSIVE ReplaceChar(_, _, _)
ReplaceChar(text, c, by) ==
    IF text = <<>> THEN <<>>
    ELSE IF Len(text) = 1 THEN (IF text[1] = c THEN by ELSE text)
    ELSE LET mid == Len(text) \div 2
         IN  ReplaceChar(SubSeq(text, 1, mid), c, by)
             \o ReplaceChar(SubSeq(text, mid + 1, Len(text)), c, by)

escapeHtml(text) ==
    ReplaceChar(ReplaceChar(ReplaceChar(ReplaceChar(ReplaceChar(text,
        "&", <<"&","a","m","p",";">>), "<", <<"&","l","t",";">>), ">", <<"&","g","t",";">>),
        "\"", <<"&","q","u","o","t",";">>), "'", <<"&","#","3","9",";">>)

\* An optional string is a sequence of at most one string; a || b takes b
\* when a is absent or the empty string.
OrElse(a, b) == IF a = <<>> \/ a[1] = <<>> THEN b ELSE a[1]

PageMetadata(title, description, canonical, ogTitle, ogDescription, ogImage, noindex) ==
    [title |-> title, description |-> description, canonical |-> canonical,
     ogTitle |-> ogTitle, ogDescription |-> ogDescription,
     ogImage |-> ogImage, noindex |-> noindex]

generateHtmlHead(metadata, additionalJsonLd) ==
    LET title == metadata.title
        description == metadata.description
        canonical == metadata.canonical
        ogTitle == metadata.ogTitle
        ogDescription == metadata.ogDescription
        ogImage == metadata.ogImage
        noindex == metadata.noindex
    IN  <<"<","!","D","O","C","T","Y","P","E"," ","h","t","m","l",">","\n",
          "<","h","t","m","l"," ","l","a","n","g","=","\"","e","n","\"",">",
          "\n","<","h","e","a","d",">","\n","<","m","e","t","a"," ","c","h",
          "a","r","s","e","t","=","\"","U","T","F","-","8","\"",">","\n","<",
          "m","e","t","a"," ","n","a","m","e","=","\"","v","i","e","w","p",
          "o","r","t","\""," ","c","o","n","t","e","n","t","=","\"","w","i",
          "d","t","h","=","d","e","v","i","c","e","-","w","i","d","t","h",
          ","," ","i","n","i","t","i","a","l","-","s","c","a","l","e","=",
          "1",".","0","\"",">","\n","<","t","i","t","l","e",">">>
        \o escapeHtml(title) \o <<"<","/","t","i","t","l","e",">","\n","<","m","e","t","a"," ","n",
                                  "a","m","e","=","\"","d","e","s","c","r","i","p","t","i","o","n",
                                  "\""," ","c","o","n","t","e","n","t","=","\"">>
        \o escapeHtml(description) \o <<"\"",">","\n","<","l","i","n","k"," ","r","e","l","=","\"","c","a",
                                        "n","o","n","i","c","a","l","\""," ","h","r","e","f","=","\"">>
        \o canonical \o <<"\"",">","\n">>
        \o (IF noindex
            THEN <<"<","m","e","t","a"," ","n","a","m","e","=","\"","r","o","b","o",
                   "t","s","\""," ","c","o","n","t","e","n","t","=","\"","n","o","i",
                   "n","d","e","x",","," ","n","o","f","o","l","l","o","w","\"",">">>
            ELSE <<>>)
        \o <<"\n","<","!","-","-"," ","O","p","e","n"," ","G","r","a","p","h",
             " ","-","-",">","\n","<","m","e","t","a"," ","p","r","o","p","e",
             "r","t","y","=","\"","o","g",":","t","i","t","l","e","\""," ","c",
             "o","n","t","e","n","t","=","\"">>
        \o escapeHtml(OrElse(ogTitle, title)) \o <<"\"",">","\n","<","m","e","t","a"," ","p","r","o","p","e","r","t",
                                                   "y","=","\"","o","g",":","d","e","s","c","r","i","p","t","i","o",
                                                   "n","\""," ","c","o","n","t","e","n","t","=","\"">>
        \o escapeHtml(OrElse(ogDescription, description)) \o <<"\"",">","\n","<","m","e","t","a"," ","p","r","o","p","e","r","t",
                                                               "y","=","\"","o","g",":","t","y","p","e","\""," ","c","o","n","t",
                                                               "e","n","t","=","\"","w","e","b","s","i","t","e","\"",">","\n","<",
                                                               "m","e","t","a"," ","p","r","o","p","e","r","t","y","=","\"","o",
                                                               "g",":","u","r","l","\""," ","c","o","n","t","e","n","t","=","\"">>
        \o canonical \o <<"\"",">","\n">>
        \o (IF ogImage # <<>> /\ ogImage[1] # <<>>
            THEN <<"<","m","e","t","a"," ","p","r","o","p","e","r","t","y","=","\"",
                   "o","g",":","i","m","a","g","e","\""," ","c","o","n","t","e","n",
                   "t","=","\"">>
                 \o ogImage[1] \o <<"\"",">">>
            ELSE <<>>)
        \o <<"\n","<","!","-","-"," ","T","w","i","t","t","e","r"," ","C","a",
             "r","d"," ","-","-",">","\n","<","m","e","t","a"," ","n","a","m",
             "e","=","\"","t","w","i","t","t","e","r",":","c","a","r","d","\"",
             " ","c","o","n","t","e","n","t","=","\"","s","u","m","m","a","r",
             "y","_","l","a","r","g","e","_","i","m","a","g","e","\"",">","\n",
             "<","m","e","t","a"," ","n","a","m","e","=","\"","t","w","i","t",
             "t","e","r",":","t","i","t","l","e","\""," ","c","o","n","t","e",
             "n","t","=","\"">>
        \o escapeHtml(OrElse(ogTitle, title)) \o <<"\"",">","\n","<","m","e","t","a"," ","n","a","m","e","=","\"","t",
                                                   "w","i","t","t","e","r",":","d","e","s","c","r","i","p","t","i",
                                                   "o","n","\""," ","c","o","n","t","e","n","t","=","\"">>
        \o escapeHtml(OrElse(ogDescription, description)) \o <<"\"",">","\n">>
        \o (IF ogImage # <<>> /\ ogImage[1] # <<>>
            THEN <<"<","m","e","t","a"," ","n","a","m","e","=","\"","t","w","i","t",
                   "t","e","r",":","i","m","a","g","e","\""," ","c","o","n","t","e",
                   "n","t","=","\"">>
                 \o ogImage[1] \o <<"\"",">">>
            ELSE <<>>)
        \o <<"\n","<","!","-","-"," ","J","S","O","N","-","L","D"," ","-","-",
             ">","\n","<","s","c","r","i","p","t"," ","t","y","p","e","=","\"",
             "a","p","p","l","i","c","a","t","i","o","n","/","l","d","+","j",
             "s","o","n","\"",">","\n","{","\n","\"","@","c","o","n","t","e","x",
             "t","\"",":"," ","\"","h","t","t","p","s",":","/","/","s","c","h",
             "e","m","a",".","o","r","g","\"",",","\n","\"","@","t","y","p","e",
             "\"",":"," ","\"","W","e","b","S","i","t","e","\"",",","\n","\"","n",
             "a","m","e","\"",":"," ","\"","H","a","n","m","a","\"",",","\n","\"",
             "u","r","l","\"",":"," ">>
        \o SITE_URL \o <<",","\n","\"","d","e","s","c","r","i","p","t","i","o","n","\"",":",
                         " ","\"","P","r","o","d","u","c","t","i","o","n","-","r","e","a",
                         "d","y"," ","b","a","c","k","e","n","d"," ","c","o","d","e"," ",
                         "s","n","i","p","p","e","t","s"," ","f","o","r"," ","E","x","p",
                         "r","e","s","s",","," ","H","o","n","o",","," ","E","l","y","s",
                         "i","a",","," ","F","a","s","t","i","f","y",","," ","a","n","d",
                         " ","N","e","s","t","J","S","\"","\n","}","\n","<","/","s","c","r",
                         "i","p","t",">","\n">>
        \o (IF additionalJsonLd # <<>> /\ additionalJsonLd[1] # <<>>
            THEN <<"<","s","c","r","i","p","t"," ","t","y","p","e","=","\"","a","p",
                   "p","l","i","c","a","t","i","o","n","/","l","d","+","j","s","o",
                   "n","\"",">">>
                 \o additionalJsonLd[1] \o <<"<","/","s","c","r","i","p","t",">">>
            ELSE <<>>)
        \o <<"\n","<","!","-","-"," ","S","t","y","l","e","s"," ","-","-",">",
             "\n","<","l","i","n","k"," ","r","e","l","=","\"","s","t","y","l",
             "e","s","h","e","e","t","\""," ","h","r","e","f","=","\"","/","s",
             "t","y","l","e","s",".","c","s","s","\"",">","\n","<","/","h","e",
             "a","d",">","\n","<","b","o","d","y",">">>

generateHtmlFooter ==
    <<"<","f","o","o","t","e","r",">","\n","<","d","i","v"," ","c","l",
      "a","s","s","=","\"","c","o","n","t","a","i","n","e","r","\"",">",
      "\n","<","p",">","&","c","o","p","y",";"," ","2","0","2","4"," ",
      "H","a","n","m","a","."," ","P","r","o","d","u","c","t","i","o",
      "n","-","r","e","a","d","y"," ","b","a","c","k","e","n","d"," ",
      "c","o","d","e"," ","s","n","i","p","p","e","t","s",".","<","/",
      "p",">","\n","<","n","a","v",">","\n","<","a"," ","h","r","e","f",
      "=","\"","/","\"",">","H","o","m","e","<","/","a",">","\n","<","a",
      " ","h","r","e","f","=","\"","/","d","o","c","s","\"",">","D","o",
      "c","u","m","e","n","t","a","t","i","o","n","<","/","a",">","\n",
      "<","a"," ","h","r","e","f","=","\"","h","t","t","p","s",":","/",
      "/","g","i","t","h","u","b",".","c","o","m","/","i","t","s","t",
      "h","e","a","n","u","r","a","g","/","h","a","n","m","a","\"",">",
      "G","i","t","H","u","b","<","/","a",">","\n","<","/","n","a","v",
      ">","\n","<","/","d","i","v",">","\n","<","/","f","o","o","t","e",
      "r",">","\n","<","/","b","o","d","y",">","\n","<","/","h","t","m",
      "l",">">>

generateFullPage(metadata, content, additionalJsonLd) ==
    generateHtmlHead(metadata, additionalJsonLd) \o <<"\n">> \o content
    \o <<"\n">> \o generateHtmlFooter

(***************************************************************************)
(* Reading a document back: the start tags, end tags and text a browser's  *)
(* tokenizer finds in it.  Comments and the doctype are skipped, the body  *)
(* of script and style is raw text, the body of title is text with         *)
(* character references, attribute values end at their closing quote, and  *)
(* the five character references escapeHtml writes are decoded.            *)
(***************************************************************************)

IsAsciiLetter(c) == c \in LowerLetters \cup UpperLetters

HtmlSpace == {" ", "\n", "\t"}

StartsWithAt(s, i, lit) ==
    /\ i >= 1
    /\ i + Len(lit) - 1 <= Len(s)
    /\ ToLowerCase(SubSeq(s, i, i + Len(lit) - 1)) = lit

\* What a scan looks for: a literal, one character of a set, one character
\* not of a set, or "<" where a
\* tag, a comment or the doctype opens.
Lit(lit) == [kind |-> "lit", lit |-> lit, set |-> {}]

AnyOf(set) == [kind |-> "any", lit |-> <<>>, set |-> set]

NoneOf(set) == [kind |-> "none", lit |-> <<>>, set |-> set]

TagOpen == [kind |-> "tag", lit |-> <<>>, set |-> {}]

Matches(s, j, pat) ==
    CASE pat.kind = "lit" -> StartsWithAt(s, j, pat.lit)
      [] pat.kind = "any" -> s[j] \in pat.set
      [] pat.kind = "none" -> s[j] \notin pat.set
      [] pat.kind = "tag" ->
            /\ s[j] = "<"
            /\ j < Len(s)
            /\ (IsAsciiLetter(s[j + 1]) \/ s[j + 1] \in {"/", "!"})

\* The least position in lo..hi where pat matches, hi + 1 when there is none.
RECURSIVE FirstIn(_, _, _, _)
FirstIn(s, lo, hi, pat) ==
    IF lo > hi THEN hi + 1
    ELSE IF lo = hi THEN (IF Matches(s, lo, pat) THEN lo ELSE hi + 1)
    ELSE LET mid == (lo + hi) \div 2
             left == FirstIn(s, lo, mid, pat)
         IN  IF left <= mid THEN left ELSE FirstIn(s, mid + 1, hi, pat)

First(s, from, pat) == FirstIn(s, from, Len(s), pat)

CharacterReferences ==
    {[ref |-> <<"&","a","m","p",";">>, char |-> "&"], [ref |-> <<"&","l","t",";">>, char |-> "<"],
     [ref |-> <<"&","g","t",";">>, char |-> ">"], [ref |-> <<"&","q","u","o","t",";">>, char |-> "\""],
     [ref |-> <<"&","#","3","9",";">>, char |-> "'"]}

RECURSIVE DecodeEntities(_)
DecodeEntities(text) ==
    LET amp == First(text, 1, AnyOf({"&"}))
        hits == {e \in CharacterReferences :
                    /\ amp + Len(e.ref) - 1 <= Len(text)
                    /\ SubSeq(text, amp, amp + Len(e.ref) - 1) = e.ref}
    IN  IF amp > Len(text) THEN text
        ELSE IF hits = {}
        THEN SubSeq(text, 1, amp)
             \o DecodeEntities(SubSeq(text, amp + 1, Len(text)))
        ELSE LET e == CHOOSE e \in hits : TRUE
             IN  SubSeq(text, 1, amp - 1) \o <<e.char>>
                 \o DecodeEntities(SubSeq(text, amp + Len(e.ref), Len(text)))

Attribute(name, value) == [name |-> name, value |-> value]

\* The attributes of a start tag from position i on, and the position after
\* the tag's ">".
RECURSIVE ReadAttributes(_, _, _)
ReadAttributes(s, i, attrs) ==
    IF i > Len(s) THEN [attrs |-> attrs, next |-> i]
    ELSE IF s[i] = ">" THEN [attrs |-> attrs, next |-> i + 1]
    ELSE IF s[i] \in HtmlSpace \cup {"/"} THEN ReadAttributes(s, i + 1, attrs)
    ELSE
        LET nameEnd == First(s, i, AnyOf(HtmlSpace \cup {"=", ">", "/"}))
            name == ToLowerCase(SubSeq(s, i, nameEnd - 1))
            quote == IF nameEnd + 1 <= Len(s) THEN s[nameEnd + 1] ELSE ""
        IN  IF nameEnd > Len(s) \/ s[nameEnd] # "="
            THEN ReadAttributes(s, nameEnd,
                                Append(attrs, Attribute(name, <<>>)))
            ELSE IF quote \in {"\"", "'"}
            THEN LET close == First(s, nameEnd + 2, AnyOf({quote}))
                     value == SubSeq(s, nameEnd + 2, close - 1)
                 IN  ReadAttributes(s, close + 1,
                         Append(attrs, Attribute(name, DecodeEntities(value))))
            ELSE LET valueEnd == First(s, nameEnd + 1,
                                       AnyOf(HtmlSpace \cup {">"}))
                     value == SubSeq(s, nameEnd + 1, valueEnd - 1)
                 IN  ReadAttributes(s, valueEnd,
                         Append(attrs, Attribute(name, DecodeEntities(value))))

StartTag(name, attrs) ==
    [kind |-> "start", name |-> name, attrs |-> attrs, text |-> <<>>]

EndTag(name) ==
    [kind |-> "end", name |-> name, attrs |-> <<>>, text |-> <<>>]

Text(text) ==
    [kind |-> "text", name |-> <<>>, attrs |-> <<>>, text |-> text]

TextIfAny(text) == IF text = <<>> THEN <<>> ELSE <<Text(text)>>

RawTextElements == {<<"s","c","r","i","p","t">>, <<"s","t","y","l","e">>}

RcdataElements == {<<"t","i","t","l","e">>, <<"t","e","x","t","a","r","e","a">>}

\* The tokens of one step of the reader from position i (the text before the
\* next tag and that tag, or a whole script, style or title element), and
\* the position the next step starts at.
ReadOne(s, i) ==
    LET open == First(s, i, TagOpen)
        before == TextIfAny(DecodeEntities(SubSeq(s, i, open - 1)))
    IN  IF open > Len(s) THEN [tokens |-> before, next |-> open]
        ELSE IF StartsWithAt(s, open, <<"<","!","-","-">>)
        THEN [tokens |-> before,
              next |-> First(s, open + 4, Lit(<<"-","-",">">>)) + 3]
        ELSE IF s[open + 1] = "!"
        THEN [tokens |-> before, next |-> First(s, open, AnyOf({">"})) + 1]
        ELSE IF s[open + 1] = "/"
        THEN LET nameEnd == First(s, open + 2, AnyOf(HtmlSpace \cup {">"}))
                 name == ToLowerCase(SubSeq(s, open + 2, nameEnd - 1))
             IN  [tokens |-> before \o <<EndTag(name)>>,
                  next |-> First(s, nameEnd, AnyOf({">"})) + 1]
        ELSE LET nameEnd == First(s, open + 1,
                                  AnyOf(HtmlSpace \cup {">", "/"}))
                 name == ToLowerCase(SubSeq(s, open + 1, nameEnd - 1))
                 a == ReadAttributes(s, nameEnd, <<>>)
                 close == First(s, a.next, Lit(<<"<", "/">> \o name))
                 body == SubSeq(s, a.next, close - 1)
             IN  IF name \in RawTextElements
                 THEN [tokens |-> before \o <<StartTag(name, a.attrs)>>
                                  \o TextIfAny(body) \o <<EndTag(name)>>,
                       next |-> First(s, close, AnyOf({">"})) + 1]
                 ELSE IF name \in RcdataElements
                 THEN [tokens |-> before \o <<StartTag(name, a.attrs)>>
                                  \o TextIfAny(DecodeEntities(body))
                                  \o <<EndTag(name)>>,
                       next |-> First(s, close, AnyOf({">"})) + 1]
                 ELSE [tokens |-> before \o <<StartTag(name, a.attrs)>>,
                       next |-> a.next]

\* At most k steps of the reader from position i.
RECURSIVE ReadSome(_, _, _)
ReadSome(s, i, k) ==
    IF k = 0 \/ i > Len(s) THEN [tokens |-> <<>>, next |-> i]
    ELSE LET one == ReadOne(s, i)
             rest == ReadSome(s, one.next, k - 1)
         IN  [tokens |-> one.tokens \o rest.tokens, next |-> rest.next]

RECURSIVE ReadTokens(_, _)
ReadTokens(s, i) ==
    IF i > Len(s) THEN <<>>
    ELSE LET some == ReadSome(s, i, 8)
         IN  some.tokens \o ReadTokens(s, some.next)

ReadDocument(s) == ReadTokens(s, 1)

\* The value of the first attribute of that name, as an optional string.
AttributeValue(attrs, name) ==
    LET named == SelectSeq(attrs, LAMBDA a : a.name = name)
    IN  IF named = <<>> THEN <<>> ELSE <<named[1].value>>

\* The positions of the start tags of the elements of that name.
ElementsNamed(tokens, name) ==
    {i \in DOMAIN tokens : tokens[i].kind = "start" /\ tokens[i].name = name}

\* The text right inside the element whose start tag is at position i.
TextOf(tokens, i) ==
    IF i < Len(tokens) /\ tokens[i + 1].kind = "text"
    THEN tokens[i + 1].text ELSE <<>>

\* The texts of the title elements of a document, and the href values of
\* its <link rel="canonical"> elements.
TitleTexts(tokens) ==
    {<<i, TextOf(tokens, i)>> : i \in ElementsNamed(tokens, <<"t","i","t","l","e">>)}

CanonicalLinks(tokens) ==
    {<<i, AttributeValue(tokens[i].attrs, <<"h","r","e","f">>)>> :
        i \in {j \in ElementsNamed(tokens, <<"l","i","n","k">>) :
                  AttributeValue(tokens[j].attrs, <<"r","e","l">>)
                      = <<<<"c","a","n","o","n","i","c","a","l">>>>}}

(***************************************************************************)
(* JSON.  A value is a string, a number, an array or an object; an object  *)
(* is the sequence of its members in insertion order.                      *)
(***************************************************************************)

JString(s) == [t |-> "string", s |-> s, n |-> 0, m |-> <<>>]

JNumber(n) == [t |-> "number", s |-> <<>>, n |-> n, m |-> <<>>]

JArray(items) == [t |-> "array", s |-> <<>>, n |-> 0, m |-> items]

JMember(key, value) == [t |-> "member", s |-> key, n |-> 0, m |-> <<value>>]

JObject(members) == [t |-> "object", s |-> <<>>, n |-> 0, m |-> members]

\* The decimal digits of a natural number.
RECURSIVE NumberToString(_)
NumberToString(n) ==
    IF n < 10 THEN <<DigitChars[n + 1]>>
    ELSE NumberToString(n \div 10) \o <<DigitChars[(n % 10) + 1]>>

\* JSON.stringify of a string: the quotes, and an escape for the double
\* quote, the backslash and the line feed.
QuoteJsonString(s) ==
    <<"\"">>
    \o ReplaceChar(ReplaceChar(ReplaceChar(s, "\\", <<"\\", "\\">>),
                               "\"", <<"\\", "\"">>), "\n", <<"\\", "n">>)
    \o <<"\"">>

Spaces(n) == [i \in 1..n |-> " "]

\* JSON.stringify(value, null, 2) at a nesting depth.  An array element or
\* an object member is on a line of its own, indented by two spaces a
\* level; the empty array is [] and the empty object {}.
RECURSIVE StringifyAt(_, _)
RECURSIVE StringifyItems(_, _)
StringifyItems(items, depth) ==
    IF items = <<>> THEN <<>>
    ELSE <<"\n">> \o Spaces(2 * depth)
         \o (IF Head(items).t = "member"
             THEN QuoteJsonString(Head(items).s) \o <<":", " ">>
                  \o StringifyAt(Head(items).m[1], depth)
             ELSE StringifyAt(Head(items), depth))
         \o (IF Len(items) > 1 THEN <<",">> ELSE <<>>)
         \o StringifyItems(Tail(items), depth)

StringifyAt(value, depth) ==
    CASE value.t = "string" -> QuoteJsonString(value.s)
      [] value.t = "number" -> NumberToString(value.n)
      [] value.t = "array" ->
            IF value.m = <<>> THEN <<"[", "]">>
            ELSE <<"[">> \o StringifyItems(value.m, depth + 1)
                 \o <<"\n">> \o Spaces(2 * depth) \o <<"]">>
      [] value.t = "object" ->
            IF value.m = <<>> THEN <<"{", "}">>
            ELSE <<"{">> \o StringifyItems(value.m, depth + 1)
                 \o <<"\n">> \o Spaces(2 * depth) \o <<"}">>

JsonStringify(value) == StringifyAt(value, 0)

(***************************************************************************)
(* Reading JSON back (JSON.parse, for strings, natural numbers, arrays and *)
(* objects).  A reader returns whether it succeeded, what it read and the  *)
(* position after it.                                                      *)
(***************************************************************************)

SkipSpace(s, i) == First(s, i, NoneOf(HtmlSpace))

\* The characters of a string from position i (after the opening quote) to
\* the closing quote, with the escapes undone.
RECURSIVE ReadJsonChars(_, _)
ReadJsonChars(s, i) ==
    LET stop == First(s, i, AnyOf({"\"", "\\"}))
        plain == SubSeq(s, i, stop - 1)
    IN  IF stop > Len(s) THEN [ok |-> FALSE, text |-> plain, next |-> stop]
        ELSE IF s[stop] = "\"" THEN [ok |-> TRUE, text |-> plain, next |-> stop + 1]
        ELSE IF stop = Len(s) THEN [ok |-> FALSE, text |-> plain, next |-> stop + 1]
        ELSE LET c == s[stop + 1]
                 rest == ReadJsonChars(s, stop + 2)
             IN  [ok |-> rest.ok /\ c \in {"\"", "\\", "/", "n", "t"},
                  text |-> plain
                           \o <<IF c = "n" THEN "\n"
                                ELSE IF c = "t" THEN "\t" ELSE c>>
                           \o rest.text,
                  next |-> rest.next]

ReadJsonString(s, i) ==
    IF i <= Len(s) /\ s[i] = "\"" THEN ReadJsonChars(s, i + 1)
    ELSE [ok |-> FALSE, text |-> <<>>, next |-> i]

DigitValue(c) == CHOOSE d \in 0..9 : DigitChars[d + 1] = c

RECURSIVE DigitsValue(_)
DigitsValue(digits) ==
    IF digits = <<>> THEN 0
    ELSE 10 * DigitsValue(SubSeq(digits, 1, Len(digits) - 1))
         + DigitValue(digits[Len(digits)])

JsonFailure(i) == [ok |-> FALSE, value |-> JString(<<>>), next |-> i]

RECURSIVE ReadJsonValue(_, _)
RECURSIVE ReadJsonItems(_, _, _)
\* The elements of an array, or the members of an object, from position i
\* (after the opening bracket or after a comma) to the closing bracket.
ReadJsonItems(s, i, object) ==
    LET j == SkipSpace(s, i)
    IN  IF j > Len(s) THEN [ok |-> FALSE, items |-> <<>>, next |-> j]
        ELSE IF s[j] \in {"]", "}"}
        THEN [ok |-> (s[j] = "}") = object, items |-> <<>>, next |-> j + 1]
        ELSE
        LET key == IF object THEN ReadJsonString(s, j)
                   ELSE [ok |-> TRUE, text |-> <<>>, next |-> j]
            colon == SkipSpace(s, key.next)
            hasColon == colon <= Len(s) /\ s[colon] = ":"
            v == ReadJsonValue(s, IF object THEN colon + 1 ELSE j)
            after == SkipSpace(s, v.next)
            comma == after <= Len(s) /\ s[after] = ","
            rest == ReadJsonItems(s, IF comma THEN after + 1 ELSE after,
                                  object)
        IN  IF ~key.ok \/ (object /\ ~hasColon) \/ ~v.ok
            THEN [ok |-> FALSE, items |-> <<>>, next |-> j]
            ELSE [ok |-> rest.ok /\ (comma = (rest.items # <<>>)),
                  items |-> <<IF object THEN JMember(key.text, v.value)
                              ELSE v.value>> \o rest.items,
                  next |-> rest.next]

ReadJsonValue(s, i) ==
    LET j == SkipSpace(s, i)
    IN  IF j > Len(s) THEN JsonFailure(j)
        ELSE IF s[j] = "\""
        THEN LET r == ReadJsonString(s, j)
             IN  [ok |-> r.ok, value |-> JString(r.text), next |-> r.next]
        ELSE IF s[j] \in Digits
        THEN LET end == First(s, j, NoneOf(Digits))
             IN  [ok |-> TRUE,
                  value |-> JNumber(DigitsValue(SubSeq(s, j, end - 1))),
                  next |-> end]
        ELSE IF s[j] \in {"[", "{"}
        THEN LET r == ReadJsonItems(s, j + 1, s[j] = "{")
             IN  [ok |-> r.ok,
                  value |-> IF s[j] = "{" THEN JObject(r.items)
                            ELSE JArray(r.items),
                  next |-> r.next]
        ELSE JsonFailure(j)

\* JSON.parse: the value, or nothing when the text is not JSON.
JsonParse(s) ==
    LET r == ReadJsonValue(s, 1)
    IN  IF r.ok /\ SkipSpace(s, r.next) > Len(s) THEN <<r.value>> ELSE <<>>

\* The value of the member of that name of an object, if it has one.
JsonGet(object, key) ==
    LET named == SelectSeq(object.m, LAMBDA mem : mem.s = key)
    IN  IF object.t # "object" \/ named = <<>> THEN <<>> ELSE named[1].m

(***************************************************************************)
(* The fragment renderers of the markup layer.                             *)
(***************************************************************************)

\* An item of a breadcrumb: { name, url }
BreadcrumbItem(name, url) == [name |-> name, url |-> url]

generateBreadcrumb(items) ==
    LET itemsHtml ==
            Join([index \in DOMAIN items |->
                     IF index = Len(items)
                     THEN <<"<","s","p","a","n"," ","c","l","a","s","s","=","\"","b","r","e",
                            "a","d","c","r","u","m","b","-","i","t","e","m"," ","a","c","t",
                            "i","v","e","\"",">">>
                          \o escapeHtml(items[index].name) \o <<"<","/","s","p","a","n",">">>
                     ELSE <<"<","a"," ","h","r","e","f","=","\"">> \o items[index].url
                          \o <<"\""," ","c","l","a","s","s","=","\"","b","r","e","a","d","c","r",
                               "u","m","b","-","i","t","e","m","\"",">">>
                          \o escapeHtml(items[index].name) \o <<"<","/","a",">">>],
                 <<"<","s","p","a","n"," ","c","l","a","s","s","=","\"","b","r","e",
                   "a","d","c","r","u","m","b","-","s","e","p","a","r","a","t","o",
                   "r","\"",">","/","<","/","s","p","a","n",">">>)
    IN  <<"<","n","a","v"," ","c","l","a","s","s","=","\"","b","r","e","a",
          "d","c","r","u","m","b","\""," ","a","r","i","a","-","l","a","b",
          "e","l","=","\"","B","r","e","a","d","c","r","u","m","b","\"",">",
          "\n">> \o itemsHtml \o <<"\n","<","/","n","a","v",">">>

generateCodeBlock(code, language) ==
    <<"<","p","r","e"," ","c","l","a","s","s","=","\"","c","o","d","e",
      "-","b","l","o","c","k","\"",">","<","c","o","d","e"," ","c","l",
      "a","s","s","=","\"","l","a","n","g","u","a","g","e","-">> \o language \o <<"\"",">">>
    \o escapeHtml(code) \o <<"<","/","c","o","d","e",">","<","/","p","r","e",">">>

generateCopyButton(codeId) ==
    <<"<","b","u","t","t","o","n"," ","c","l","a","s","s","=","\"","c",
      "o","p","y","-","b","u","t","t","o","n","\""," ","d","a","t","a",
      "-","c","o","d","e","-","i","d","=","\"">> \o codeId
    \o <<"\""," ","a","r","i","a","-","l","a","b","e","l","=","\"","C","o",
         "p","y"," ","c","o","d","e"," ","t","o"," ","c","l","i","p","b",
         "o","a","r","d","\"",">","\n","<","s","v","g"," ","w","i","d","t",
         "h","=","\"","1","6","\""," ","h","e","i","g","h","t","=","\"","1",
         "6","\""," ","v","i","e","w","B","o","x","=","\"","0"," ","0"," ",
         "2","4"," ","2","4","\""," ","f","i","l","l","=","\"","n","o","n",
         "e","\""," ","s","t","r","o","k","e","=","\"","c","u","r","r","e",
         "n","t","C","o","l","o","r","\""," ","s","t","r","o","k","e","-",
         "w","i","d","t","h","=","\"","2","\"",">","\n","<","r","e","c","t",
         " ","x","=","\"","9","\""," ","y","=","\"","9","\""," ","w","i","d",
         "t","h","=","\"","1","3","\""," ","h","e","i","g","h","t","=","\"",
         "1","3","\""," ","r","x","=","\"","2","\""," ","r","y","=","\"","2",
         "\"",">","<","/","r","e","c","t",">","\n","<","p","a","t","h"," ",
         "d","=","\"","M","5"," ","1","5","H","4","a","2"," ","2"," ","0",
         " ","0"," ","1","-","2","-","2","V","4","a","2"," ","2"," ","0",
         " ","0"," ","1"," ","2","-","2","h","9","a","2"," ","2"," ","0",
         " ","0"," ","1"," ","2"," ","2","v","1","\"",">","<","/","p","a",
         "t","h",">","\n","<","/","s","v","g",">","\n","<","s","p","a","n",
         ">","C","o","p","y","<","/","s","p","a","n",">","\n","<","/","b",
         "u","t","t","o","n",">">>

Faq(question, answer) == [question |-> question, answer |-> answer]

generateFaqSection(faqs) ==
    LET faqItems ==
            Join([i \in DOMAIN faqs |->
                     <<"<","d","e","t","a","i","l","s"," ","c","l","a","s","s","=","\"",
                       "f","a","q","-","i","t","e","m","\""," ","d","a","t","a","-","f",
                       "a","q","-","i","n","d","e","x","=","\"">>
                     \o NumberToString(i - 1) \o <<"\"",">","\n","<","s","u","m","m","a","r","y"," ","c","l","a","s",
                                                   "s","=","\"","f","a","q","-","q","u","e","s","t","i","o","n","\"",
                                                   ">">>
                     \o escapeHtml(faqs[i].question) \o <<"<","/","s","u","m","m","a","r","y",">","\n","<","d","i","v"," ",
                                                          "c","l","a","s","s","=","\"","f","a","q","-","a","n","s","w","e",
                                                          "r","\"",">">>
                     \o faqs[i].answer \o <<"<","/","d","i","v",">","\n","<","/","d","e","t","a","i","l","s",
                                            ">">>],
                 <<"\n">>)
    IN  <<"<","s","e","c","t","i","o","n"," ","c","l","a","s","s","=","\"",
          "f","a","q","-","s","e","c","t","i","o","n","\"",">","\n","<","h",
          "2",">","F","r","e","q","u","e","n","t","l","y"," ","A","s","k",
          "e","d"," ","Q","u","e","s","t","i","o","n","s","<","/","h","2",
          ">","\n","<","d","i","v"," ","c","l","a","s","s","=","\"","f","a",
          "q","-","l","i","s","t","\"",">","\n">> \o faqItems \o <<"\n","<","/","d","i","v",">","\n","<","/","s","e","c","t","i","o",
                    "n",">">>

RelatedSnippet(name, displayName, url) ==
    [name |-> name, displayName |-> displayName, url |-> url]

generateRelatedSnippets(snippets) ==
    LET snippetItems ==
            Join([i \in DOMAIN snippets |->
                     <<"<","a"," ","h","r","e","f","=","\"">> \o snippets[i].url
                     \o <<"\""," ","c","l","a","s","s","=","\"","r","e","l","a","t","e","d",
                          "-","s","n","i","p","p","e","t","\"",">","\n","<","h","3",">">>
                     \o escapeHtml(snippets[i].displayName) \o <<"<","/","h","3",">","\n","<","p",">">>
                     \o escapeHtml(snippets[i].name) \o <<"<","/","p",">","\n","<","/","a",">">>],
                 <<"\n">>)
    IN  <<"<","s","e","c","t","i","o","n"," ","c","l","a","s","s","=","\"",
          "r","e","l","a","t","e","d","-","s","n","i","p","p","e","t","s",
          "\"",">","\n","<","h","2",">","R","e","l","a","t","e","d"," ","S",
          "n","i","p","p","e","t","s","<","/","h","2",">","\n","<","d","i",
          "v"," ","c","l","a","s","s","=","\"","r","e","l","a","t","e","d",
          "-","s","n","i","p","p","e","t","s","-","g","r","i","d","\"",">",
          "\n">> \o snippetItems \o <<"\n","<","/","d","i","v",">","\n","<","/","s","e","c","t","i","o",
                        "n",">">>

generateFeatureList(features) ==
    LET featureItems ==
            Join([i \in DOMAIN features |->
                     <<"<","l","i"," ","c","l","a","s","s","=","\"","f","e","a","t","u",
                       "r","e","-","i","t","e","m","\"",">","\n","<","s","v","g"," ","w",
                       "i","d","t","h","=","\"","1","6","\""," ","h","e","i","g","h","t",
                       "=","\"","1","6","\""," ","v","i","e","w","B","o","x","=","\"","0",
                       " ","0"," ","2","4"," ","2","4","\""," ","f","i","l","l","=","\"",
                       "n","o","n","e","\""," ","s","t","r","o","k","e","=","\"","c","u",
                       "r","r","e","n","t","C","o","l","o","r","\""," ","s","t","r","o",
                       "k","e","-","w","i","d","t","h","=","\"","2","\"",">","\n","<","p",
                       "o","l","y","l","i","n","e"," ","p","o","i","n","t","s","=","\"",
                       "2","0"," ","6"," ","9"," ","1","7"," ","4"," ","1","2","\"",">",
                       "<","/","p","o","l","y","l","i","n","e",">","\n","<","/","s","v",
                       "g",">","\n","<","s","p","a","n",">">>
                     \o escapeHtml(features[i]) \o <<"<","/","s","p","a","n",">","\n","<","/","l","i",">">>],
                 <<"\n">>)
    IN  <<"<","u","l"," ","c","l","a","s","s","=","\"","f","e","a","t","u",
          "r","e","-","l","i","s","t","\"",">","\n">> \o featureItems \o <<"\n","<","/","u","l",">">>

generateInstallationSection(command, dependencies) ==
    LET depsHtml ==
            IF Len(dependencies) > 0
            THEN <<"<","d","i","v"," ","c","l","a","s","s","=","\"","d","e","p","e",
                   "n","d","e","n","c","i","e","s","\"",">","\n","<","h","3",">","D",
                   "e","p","e","n","d","e","n","c","i","e","s","<","/","h","3",">",
                   "\n","<","c","o","d","e",">">> \o Join(dependencies, <<",", " ">>) \o <<"<","/","c","o","d","e",">","\n","<","/","d","i","v",">">>
            ELSE <<>>
    IN  <<"<","s","e","c","t","i","o","n"," ","c","l","a","s","s","=","\"",
          "i","n","s","t","a","l","l","a","t","i","o","n","\"",">","\n","<",
          "h","2",">","I","n","s","t","a","l","l","a","t","i","o","n","<",
          "/","h","2",">","\n","<","d","i","v"," ","c","l","a","s","s","=",
          "\"","c","o","m","m","a","n","d","-","b","l","o","c","k","\"",">",
          "\n","<","c","o","d","e",">">> \o escapeHtml(command) \o <<"<","/","c","o","d","e",">","\n">> \o generateCopyButton(<<"i","n","s","t","a","l","l","-","c","o","m","m","a","n","d">>) \o <<"\n","<","/","d","i","v",">","\n">> \o depsHtml \o <<"\n","<","/","s","e","c","t","i","o","n",">">>

generateUsageSection(usage) ==
    <<"<","s","e","c","t","i","o","n"," ","c","l","a","s","s","=","\"",
      "u","s","a","g","e","\"",">","\n","<","h","2",">","U","s","a","g",
      "e","<","/","h","2",">","\n">> \o generateCodeBlock(usage, <<"t","y","p","e","s","c","r","i","p","t">>) \o <<"\n","<","/","s","e","c","t","i","o","n",">">>

(***************************************************************************)
(* generateMetadata (utils/seo-metadata.ts): the title, the description    *)
(* and the canonical URL of a page type for a context and the additional   *)
(* data of the call.  The additional data is <<>> when the argument is not *)
(* given, else <<d>> for a record d of the members given.                  *)
(***************************************************************************)

Min(S) == CHOOSE x \in S : \A y \in S : x <= y

\* context.f || "": an absent field, like the empty string, gives "".
FieldOrEmpty(context, f) == IF f \in DOMAIN context THEN context[f] ELSE <<>>

\* additionalData?.f: the member, if the argument was given and has it.
DataField(additionalData, f) ==
    IF additionalData # <<>> /\ f \in DOMAIN additionalData[1]
    THEN <<additionalData[1][f]>> ELSE <<>>

\* list.slice(0, 3).join(", ")
FirstThree(list) == Join(SubSeq(list, 1, Min({3, Len(list)})), <<",", " ">>)

titleTemplates(pageType, context) ==
    LET F(f) == FieldOrEmpty(context, f)
    IN  CASE pageType = "framework" ->
                 F("framework") \o <<" ","S","n","i","p","p","e","t","s"," ","&"," ","C","o","d","e",
                                     " ","E","x","a","m","p","l","e","s"," ","|"," ","H","a","n","m",
                                     "a">>
          [] pageType = "category" ->
                 F("category") \o <<" ">> \o F("framework")
                 \o <<" ","S","n","i","p","p","e","t","s"," ","|"," ","H","a","n","m",
                      "a">>
          [] pageType = "snippet" ->
                 F("snippet") \o <<" ","-"," ">> \o F("framework") \o <<" ">>
                 \o F("category") \o <<" ","S","n","i","p","p","e","t"," ","|"," ","H","a","n","m","a">>
          [] pageType = "useCase" ->
                 F("useCase") \o <<" ","i","n"," ">> \o F("framework")
                 \o <<" ","|"," ","C","o","d","e"," ","E","x","a","m","p","l","e"," ",
                      "|"," ","H","a","n","m","a">>
          [] pageType = "guide" ->
                 <<"H","o","w"," ","t","o"," ">> \o F("guide") \o <<" ","i","n"," ">> \o F("framework")
                 \o <<" ","|"," ","T","u","t","o","r","i","a","l"," ","|"," ","H","a",
                      "n","m","a">>
          [] pageType = "pattern" ->
                 F("pattern") \o <<" ","P","a","t","t","e","r","n"," ","|"," ">> \o F("framework")
                 \o <<" ","I","m","p","l","e","m","e","n","t","a","t","i","o","n"," ",
                      "|"," ","H","a","n","m","a">>
          [] pageType = "tag" ->
                 F("tag") \o <<" ","S","n","i","p","p","e","t","s"," ","|"," ">> \o F("framework")
                 \o <<" ","C","o","d","e"," ","E","x","a","m","p","l","e","s"," ","|",
                      " ","H","a","n","m","a">>
          [] pageType = "search" ->
                 F("query") \o <<" ","|"," ">> \o F("framework")
                 \o <<" ","C","o","d","e"," ","S","n","i","p","p","e","t","s"," ","|",
                      " ","H","a","n","m","a">>
          [] pageType = "home" -> <<"H","a","n","m","a"," ","-"," ","B","a","c","k","e","n","d"," ",
                                    "C","o","d","e"," ","S","n","i","p","p","e","t","s"," ","L","i",
                                    "b","r","a","r","y">>

\* The description of a page; for the snippet page type it is made of the
\* snippetData member of the additional data, which must be there.
descriptionTemplates(pageType, context, additionalData) ==
    LET F(f) == FieldOrEmpty(context, f)
        D(f, default) ==
            IF DataField(additionalData, f) = <<>> THEN default
            ELSE DataField(additionalData, f)[1]
    IN  CASE pageType = "framework" ->
                 <<"P","r","o","d","u","c","t","i","o","n","-","r","e","a","d","y",
                   " ">> \o F("framework")
                 \o <<" ","s","n","i","p","p","e","t","s",","," ","t","e","m","p","l",
                      "a","t","e","s",","," ","a","n","d"," ","m","o","d","u","l","e",
                      "s","."," ">>
                 \o D("frameworkDescription", <<>>)
                 \o <<"."," ","C","o","p","y","-","p","a","s","t","e"," ","c","o","d",
                      "e"," ","f","o","r"," ","a","u","t","h","e","n","t","i","c","a",
                      "t","i","o","n",","," ","m","i","d","d","l","e","w","a","r","e",
                      ","," ","d","a","t","a","b","a","s","e",","," ","a","n","d"," ",
                      "m","o","r","e",".">>
          [] pageType = "category" ->
                 <<"B","r","o","w","s","e"," ">> \o NumberToString(D("snippetCount", 0)) \o <<" ">>
                 \o F("category") \o <<" ">> \o F("framework")
                 \o <<" ","s","n","i","p","p","e","t","s","."," ","I","n","c","l","u",
                      "d","e","s"," ">>
                 \o FirstThree(D("topFeatures", <<>>))
                 \o <<"."," ","C","o","p","y"," ","a","n","d"," ","p","a","s","t","e",
                      " ","i","n","t","o"," ","y","o","u","r"," ","p","r","o","j","e",
                      "c","t",".">>
          [] pageType = "snippet" ->
                 LET snippet == DataField(additionalData, "snippetData")[1]
                 IN  snippet.description \o <<"."," ","F","e","a","t","u","r","e","s",":"," ">>
                     \o FirstThree(snippet.features)
                     \o <<"."," ","I","n","s","t","a","l","l"," ","w","i","t","h",":"," ">> \o snippet.command
          [] pageType = "useCase" ->
                 <<"L","e","a","r","n"," ","h","o","w"," ","t","o"," ","i","m","p",
                   "l","e","m","e","n","t"," ">> \o F("useCase") \o <<" ","i","n"," ">>
                 \o F("framework")
                 \o <<"."," ","C","o","m","p","l","e","t","e"," ","c","o","d","e"," ",
                      "e","x","a","m","p","l","e"," ","w","i","t","h"," ","e","x","p",
                      "l","a","n","a","t","i","o","n","s"," ","a","n","d"," ","b","e",
                      "s","t"," ","p","r","a","c","t","i","c","e","s",".">>
          [] pageType = "guide" ->
                 <<"S","t","e","p","-","b","y","-","s","t","e","p"," ","t","u","t",
                   "o","r","i","a","l",":"," ">> \o F("guide") \o <<" ","i","n"," ">>
                 \o F("framework")
                 \o <<"."," ","I","n","c","l","u","d","e","s"," ","c","o","d","e"," ",
                      "e","x","a","m","p","l","e","s",","," ","c","o","m","m","o","n",
                      " ","i","s","s","u","e","s",","," ","a","n","d"," ","s","o","l",
                      "u","t","i","o","n","s",".">>
          [] pageType = "pattern" ->
                 <<"U","n","d","e","r","s","t","a","n","d"," ">> \o F("pattern") \o <<" ","p","a","t","t","e","r","n"," ","i","n"," ">>
                 \o F("framework")
                 \o <<"."," ","I","m","p","l","e","m","e","n","t","a","t","i","o","n",
                      " ","e","x","a","m","p","l","e","s"," ","a","n","d"," ","w","h",
                      "e","n"," ","t","o"," ","u","s","e"," ","i","t",".">>
          [] pageType = "tag" ->
                 <<"E","x","p","l","o","r","e"," ">> \o NumberToString(D("snippetCount", 0)) \o <<" ">>
                 \o F("tag") \o <<" ","s","n","i","p","p","e","t","s"," ","f","o","r"," ">> \o F("framework")
                 \o <<"."," ","I","n","c","l","u","d","e","s"," ">> \o FirstThree(D("topSnippets", <<>>))
                 \o <<".">>
          [] pageType = "search" ->
                 <<"F","i","n","d"," ">> \o F("query") \o <<" ","c","o","d","e"," ","s","n","i","p","p","e","t","s"," ","f",
                                              "o","r"," ">>
                 \o F("framework") \o <<"."," ">>
                 \o NumberToString(D("resultCount", 0)) \o <<" ","r","e","s","u","l","t","s"," ","f","o","u","n","d",".">>
          [] pageType = "home" ->
                 <<"P","r","o","d","u","c","t","i","o","n","-","r","e","a","d","y",
                   " ","b","a","c","k","e","n","d"," ","c","o","d","e"," ","s","n",
                   "i","p","p","e","t","s"," ","f","o","r"," ","E","x","p","r","e",
                   "s","s",","," ","H","o","n","o",","," ","E","l","y","s","i","a",
                   ","," ","F","a","s","t","i","f","y",","," ","a","n","d"," ","N",
                   "e","s","t","J","S","."," ","C","o","p","y","-","p","a","s","t",
                   "e"," ","c","o","d","e"," ","f","o","r"," ","a","u","t","h","e",
                   "n","t","i","c","a","t","i","o","n",","," ","m","i","d","d","l",
                   "e","w","a","r","e",","," ","d","a","t","a","b","a","s","e",",",
                   " ","a","n","d"," ","m","o","r","e",".">>

\* generateMetadata throws a TypeError when the snippet description reads
\* a member of an undefined snippetData.
generateMetadataThrows(pageType, context, additionalData) ==
    pageType = "snippet" /\ DataField(additionalData, "snippetData") = <<>>

\* The metadata generateMetadata returns when it does not throw; noindex is
\* not set.
generateMetadata(pageType, context, additionalData) ==
    LET title == titleTemplates(pageType, context)
        description == descriptionTemplates(pageType, context, additionalData)
    IN  PageMetadata(title, description, Canonical(pageType, context),
                     <<title>>, <<description>>,
                     <<SITE_URL \o <<"/","o","g","-","i","m","a","g","e",".","p","n","g">>>>, FALSE)

(***************************************************************************)
(* The content loader (utils/content-loader.ts).  docs is the content      *)
(* directory: for each framework id its index document, its category       *)
(* documents by name and its source map.  A document is unreadable         *)
(* (readFile throws), unparsable (JSON.parse throws), the JSON null, or an *)
(* object.                                                                 *)
(***************************************************************************)

File(state, data) == [state |-> state, data |-> data]

Unreadable == File("unreadable", <<>>)

Unparsable == File("unparsable", <<>>)

JsonNull == File("null", <<>>)

JsonDocument(data) == File("object", data)

\* An index document; categoryFiles is absent (no list) or one list.
FrameworkContent(categoryFiles) == [categoryFiles |-> categoryFiles]

\* A category document; subcategories is absent or one list.
CategoryData(id, title, description, subcategories) ==
    [id |-> id, title |-> title, description |-> description,
     subcategories |-> subcategories]

Directory(index, categories, sources) ==
    [index |-> index, categories |-> categories, sources |-> sources]

\* readFile and JSON.parse of <frameworkId>/<categoryId>.json
ReadCategoryFile(docs, frameworkId, categoryId) ==
    LET named == SelectSeq(docs[frameworkId].categories,
                           LAMBDA f : f.name = categoryId)
    IN  IF named = <<>> THEN Unreadable ELSE named[1].file

\* The content, or nothing (null): when readFile or JSON.parse throws the
\* catch returns null, and JSON.parse of "null" is null.
loadFrameworkContent(docs, frameworkId) ==
    LET file == docs[frameworkId].index
    IN  IF file.state = "object" THEN <<file.data>> ELSE <<>>

\* The category, or nothing (null): reading data.id of null throws inside
\* the try as well.
loadCategoryContent(docs, frameworkId, categoryId) ==
    LET file == ReadCategoryFile(docs, frameworkId, categoryId)
        data == file.data
    IN  IF file.state # "object" THEN <<>>
        ELSE <<[id |-> data.id, title |-> data.title,
                description |-> data.description,
                snippets |->
                    IF data.subcategories = <<>> THEN <<>>
                    ELSE Flatten([i \in DOMAIN data.subcategories[1] |->
                                     data.subcategories[1][i].snippets])]>>

\* The mutant of loadFrameworkCategories that returns no category when one
\* of them cannot be loaded.
loadFrameworkCategoriesAllOrNone(docs, frameworkId) ==
    LET frameworkContent == loadFrameworkContent(docs, frameworkId)
    IN  IF frameworkContent = <<>> THEN <<>>
        ELSE IF frameworkContent[1].categoryFiles = <<>> THEN <<>>
        ELSE LET categoryFiles == frameworkContent[1].categoryFiles[1]
                 loaded == [i \in DOMAIN categoryFiles |->
                               loadCategoryContent(docs, frameworkId,
                                                   categoryFiles[i].id)]
             IN  IF \E i \in DOMAIN loaded : loaded[i] = <<>> THEN <<>>
                 ELSE Flatten(loaded)

\* Iterating a categoryFiles that is absent throws a TypeError, which the
\* catch of loadFrameworkCategories turns into the empty list.
loadFrameworkCategories(docs, frameworkId) ==
    LET frameworkContent == loadFrameworkContent(docs, frameworkId)
    IN  IF frameworkContent = <<>> THEN <<>>
        ELSE IF frameworkContent[1].categoryFiles = <<>> THEN <<>>
        ELSE LET categoryFiles == frameworkContent[1].categoryFiles[1]
                 loaded == [i \in DOMAIN categoryFiles |->
                               loadCategoryContent(docs, frameworkId,
                                                   categoryFiles[i].id)]
             IN  Flatten(SelectSeq(loaded, LAMBDA category : category # <<>>))

\* What loadSnippetSource returns: null, a string, or a function.
SourceNull == [kind |-> "null", text |-> <<>>]

SourceString(text) == [kind |-> "string", text |-> text]

SourceFunction == [kind |-> "function", text |-> <<>>]

\* A source map: its own entries, in the order of the document.
SourceEntry(id, text) == [id |-> id, text |-> text]

\* The names every object inherits a function under.
ObjectPrototypeFunctions ==
    {<<"c","o","n","s","t","r","u","c","t","o","r">>,
     <<"t","o","S","t","r","i","n","g">>,
     <<"v","a","l","u","e","O","f">>,
     <<"h","a","s","O","w","n","P","r","o","p","e","r","t","y">>,
     <<"i","s","P","r","o","t","o","t","y","p","e","O","f">>,
     <<"t","o","L","o","c","a","l","e","S","t","r","i","n","g">>,
     <<"p","r","o","p","e","r","t","y","I","s","E","n","u","m","e","r","a","b","l","e">>}

\* sources[snippetId] || null.  readFile or JSON.parse throwing, and the
\* property read of the JSON null throwing, end in the catch, which returns
\* null.  The property read finds the snippet's own entry (the last of the
\* document under that key), else what the object inherits under that name,
\* else undefined; the empty string and undefined give null.
loadSnippetSource(docs, frameworkId, snippetId) ==
    LET file == docs[frameworkId].sources
        own == IF file.state = "object"
               THEN SelectSeq(file.data, LAMBDA e : e.id = snippetId)
               ELSE <<>>
    IN  IF file.state # "object" THEN SourceNull
        ELSE IF own # <<>>
        THEN (IF own[Len(own)].text = <<>> THEN SourceNull
              ELSE SourceString(own[Len(own)].text))
        ELSE IF snippetId \in ObjectPrototypeFunctions THEN SourceFunction
        ELSE SourceNull

(***************************************************************************)
(* The nine generators.  Each loads the categories of a framework from the *)
(* content directory docs (loadFrameworkCategories); a category is a       *)
(* record of id, title, description and snippets.                          *)
(***************************************************************************)

\* The title of each of TUTORIAL_TOPICS (tutorial-pages.ts)
TUTORIAL_TITLES ==
    <<<<"S","e","t"," ","U","p"," ","a"," ","N","e","w"," ","P","r","o",
        "j","e","c","t">>, <<"C","r","e","a","t","e"," ","a"," ","R","E","S","T"," ","A","P",
                                  "I">>, <<"A","d","d"," ","A","u","t","h","e","n","t","i","c","a","t","i",
                                                         "o","n">>,
      <<"A","d","d"," ","I","n","p","u","t"," ","V","a","l","i","d","a",
        "t","i","o","n">>, <<"A","d","d"," ","E","r","r","o","r"," ","H","a","n","d","l","i",
                                  "n","g">>, <<"A","d","d"," ","L","o","g","g","i","n","g">>,
      <<"A","d","d"," ","R","a","t","e"," ","L","i","m","i","t","i","n",
        "g">>, <<"C","o","n","f","i","g","u","r","e"," ","C","O","R","S">>, <<"C","o","n","n","e","c","t"," ","t","o"," ","D","a","t","a","b",
                                                   "a","s","e">>,
      <<"H","a","n","d","l","e"," ","F","i","l","e"," ","U","p","l","o",
        "a","d","s">>, <<"W","r","i","t","e"," ","T","e","s","t","s">>, <<"D","e","p","l","o","y"," ","t","o"," ","P","r","o","d","u","c",
                                                  "t","i","o","n">>>>

\* The name of each of PATTERNS (pattern-pages.ts)
PATTERN_NAMES ==
    <<<<"R","e","p","o","s","i","t","o","r","y"," ","P","a","t","t","e",
        "r","n">>, <<"F","a","c","t","o","r","y"," ","P","a","t","t","e","r","n">>, <<"S","i","n","g","l","e","t","o","n"," ","P","a","t","t","e","r",
                                                     "n">>,
      <<"S","t","r","a","t","e","g","y"," ","P","a","t","t","e","r","n">>, <<"O","b","s","e","r","v","e","r"," ","P","a","t","t","e","r","n">>, <<"D","e","c","o","r","a","t","o","r"," ","P","a","t","t","e","r",
                                                    "n">>,
      <<"M","i","d","d","l","e","w","a","r","e"," ","P","a","t","t","e",
        "r","n">>, <<"D","e","p","e","n","d","e","n","c","y"," ","I","n","j","e","c",
                                "t","i","o","n">>, <<"U","n","i","t"," ","o","f"," ","W","o","r","k">>,
      <<"C","Q","R","S"," ","P","a","t","t","e","r","n">>>>

\* The keywords of each of TUTORIAL_TOPICS (tutorial-pages.ts)
TUTORIAL_KEYWORDS ==
    <<
      <<<<"s","e","t","u","p">>,
        <<"i","n","i","t">>,
        <<"n","e","w"," ","p","r","o","j","e","c","t">>,
        <<"b","o","i","l","e","r","p","l","a","t","e">>>>,  \* "setup", "init", "new project", "boilerplate"
      <<<<"a","p","i">>,
        <<"r","e","s","t">>,
        <<"e","n","d","p","o","i","n","t">>,
        <<"r","o","u","t","e">>>>,  \* "api", "rest", "endpoint", "route"
      <<<<"a","u","t","h">>,
        <<"l","o","g","i","n">>,
        <<"j","w","t">>,
        <<"s","e","s","s","i","o","n">>>>,  \* "auth", "login", "jwt", "session"
      <<<<"v","a","l","i","d","a","t","e">>,
        <<"s","c","h","e","m","a">>,
        <<"i","n","p","u","t">>>>,  \* "validate", "schema", "input"
      <<<<"e","r","r","o","r">>,
        <<"e","x","c","e","p","t","i","o","n">>,
        <<"h","a","n","d","l","e">>>>,  \* "error", "exception", "handle"
      <<<<"l","o","g">>,
        <<"l","o","g","g","e","r">>,
        <<"m","o","n","i","t","o","r">>>>,  \* "log", "logger", "monitor"
      <<<<"r","a","t","e">>,
        <<"l","i","m","i","t">>,
        <<"t","h","r","o","t","t","l","e">>>>,  \* "rate", "limit", "throttle"
      <<<<"c","o","r","s">>,
        <<"c","r","o","s","s","-","o","r","i","g","i","n">>,
        <<"o","r","i","g","i","n">>>>,  \* "cors", "cross-origin", "origin"
      <<<<"d","b">>,
        <<"d","a","t","a","b","a","s","e">>,
        <<"s","q","l">>,
        <<"p","r","i","s","m","a">>>>,  \* "db", "database", "sql", "prisma"
      <<<<"u","p","l","o","a","d">>,
        <<"f","i","l","e">>,
        <<"m","u","l","t","i","p","a","r","t">>>>,  \* "upload", "file", "multipart"
      <<<<"t","e","s","t">>,
        <<"m","o","c","k">>,
        <<"u","n","i","t">>>>,  \* "test", "mock", "unit"
      <<<<"d","e","p","l","o","y">>,
        <<"p","r","o","d","u","c","t","i","o","n">>,
        <<"d","o","c","k","e","r">>,
        <<"p","m","2">>>>  \* "deploy", "production", "docker", "pm2"
    >>

\* The keywords of each of PATTERNS (pattern-pages.ts)
PATTERN_KEYWORDS ==
    <<
      <<<<"r","e","p","o","s","i","t","o","r","y">>,
        <<"d","a","t","a"," ","a","c","c","e","s","s">>,
        <<"d","a","t","a","b","a","s","e">>,
        <<"c","r","u","d">>,
        <<"d","a","o">>>>,  \* "repository", "data access", "database", "crud", "dao"
      <<<<"f","a","c","t","o","r","y">>,
        <<"c","r","e","a","t","e">>,
        <<"i","n","s","t","a","n","t","i","a","t","e">>,
        <<"b","u","i","l","d","e","r">>>>,  \* "factory", "create", "instantiate", "builder"
      <<<<"s","i","n","g","l","e","t","o","n">>,
        <<"s","i","n","g","l","e"," ","i","n","s","t","a","n","c","e">>,
        <<"g","l","o","b","a","l">>>>,  \* "singleton", "single instance", "global"
      <<<<"s","t","r","a","t","e","g","y">>,
        <<"a","l","g","o","r","i","t","h","m">>,
        <<"b","e","h","a","v","i","o","r">>,
        <<" ","i","n","t","e","r","c","h","a","n","g","e","a","b","l","e">>>>,  \* "strategy", "algorithm", "behavior", " interchangeable"
      <<<<"o","b","s","e","r","v","e","r">>,
        <<"s","u","b","s","c","r","i","b","e">>,
        <<"p","u","b","l","i","s","h">>,
        <<"e","v","e","n","t">>,
        <<"l","i","s","t","e","n","e","r">>>>,  \* "observer", "subscribe", "publish", "event", "listener"
      <<<<"d","e","c","o","r","a","t","o","r">>,
        <<"w","r","a","p","p","e","r">>,
        <<"e","n","h","a","n","c","e">>,
        <<"c","o","m","p","o","s","e">>>>,  \* "decorator", "wrapper", "enhance", "compose"
      <<<<"m","i","d","d","l","e","w","a","r","e">>,
        <<"c","h","a","i","n">>,
        <<"p","i","p","e","l","i","n","e">>,
        <<"f","i","l","t","e","r">>>>,  \* "middleware", "chain", "pipeline", "filter"
      <<<<"d","e","p","e","n","d","e","n","c","y">>,
        <<"i","n","j","e","c","t","i","o","n">>,
        <<"i","o","c">>,
        <<"c","o","n","t","a","i","n","e","r">>,
        <<"p","r","o","v","i","d","e","r">>>>,  \* "dependency", "injection", "ioc", "container", "provider"
      <<<<"u","n","i","t"," ","o","f"," ","w","o","r","k">>,
        <<"t","r","a","n","s","a","c","t","i","o","n">>,
        <<"a","t","o","m","i","c">>,
        <<"b","a","t","c","h">>>>,  \* "unit of work", "transaction", "atomic", "batch"
      <<<<"c","q","r","s">>,
        <<"c","o","m","m","a","n","d"," ","q","u","e","r","y">>,
        <<"s","e","p","a","r","a","t","i","o","n">>,
        <<"r","e","a","d">>,
        <<"w","r","i","t","e">>>>  \* "cqrs", "command query", "separation", "read", "write"
    >>

\* [purpose, description, ...features, name, displayName]
\*   .join(" ").toLowerCase()
RelatedText(snippet) ==
    ToLowerCase(Join(<<snippet.purpose, snippet.description>> \o snippet.features
                         \o <<snippet.name, snippet.displayName>>, <<" ">>))

\* tutorial-pages.ts: the snippets whose text includes a keyword
findRelatedSnippets(snippets, keywords) ==
    SelectSeq(snippets,
              LAMBDA snippet :
                  \E k \in DOMAIN keywords :
                      Includes(RelatedText(snippet), ToLowerCase(keywords[k])))

PatternBonus == 3

\* pattern-pages.ts: for (const keyword of keywords)
\*   if (text.includes(keyword.toLowerCase())) score += 3
PatternScore(snippet, keywords) ==
    PatternBonus * Cardinality({k \in DOMAIN keywords :
                                   Includes(RelatedText(snippet), ToLowerCase(keywords[k]))})

\* pattern-pages.ts: {snippet, score} of the snippets with a positive
\* score, highest score first.
findPatternSnippets(snippets, keywords) ==
    SortByScore(FilterPositive(
        [i \in DOMAIN snippets |->
            [snippet |-> snippets[i],
             score |-> PatternScore(snippets[i], keywords)]]))

\* The first two items of the breadcrumb of a page of a framework.
HomeAndFramework(framework) ==
    <<BreadcrumbItem(<<"H","o","m","e">>, <<"/">>),
      BreadcrumbItem(framework.name, <<"/","f","r","a","m","e","w","o","r","k","/">> \o framework.id)>>

\* framework-pages.ts
generateFrameworkPage(framework) ==
    GeneratedPage(
        PathJoin(<<OUTPUT_DIR, <<"f","r","a","m","e","w","o","r","k">>, framework.id \o <<".","h","t","m","l">>>>),
        [breadcrumb |-> generateBreadcrumb(HomeAndFramework(framework))],
        CanonicalMetadata("framework", [framework |-> framework.id]))

generateFrameworkPages ==
    LET frameworks == loadAllFrameworks
        pages == [k \in DOMAIN frameworks |-> generateFrameworkPage(frameworks[k])]
    IN  [pages |-> pages, stats |-> BuildStats("framework", pages)]

\* The link of a snippet card: /snippet/<framework>/<category>/<snippet>
SnippetHref(frameworkId, categoryId, snippetId) ==
    <<"/","s","n","i","p","p","e","t","/">> \o frameworkId \o <<"/">> \o categoryId \o <<"/">> \o snippetId

\* A card whose link is built from the snippet's name.
snippetCardByName(framework, category, snippet) ==
    [snippetId |-> snippet.id,
     href |-> SnippetHref(framework.id, category.id, snippet.name),
     displayName |-> snippet.displayName]

\* One <article class="snippet-card"> of the snippet grid.
snippetCard(framework, category, snippet) ==
    [snippetId |-> snippet.id,
     href |-> SnippetHref(framework.id, category.id, snippet.id),
     displayName |-> snippet.displayName]

\* category-pages.ts
generateCategoryPage(framework, category) ==
    GeneratedPage(
        PathJoin(<<OUTPUT_DIR, <<"f","r","a","m","e","w","o","r","k">>, framework.id, category.id \o <<".","h","t","m","l">>>>),
        [breadcrumb |->
             generateBreadcrumb(
                 HomeAndFramework(framework)
                 \o <<BreadcrumbItem(category.title,
                                     <<"/","f","r","a","m","e","w","o","r","k","/">> \o framework.id
                                     \o <<"/">> \o category.id)>>),
         cards |-> [i \in DOMAIN category.snippets |->
                       snippetCard(framework, category, category.snippets[i])]],
        CanonicalMetadata("category",
                         [framework |-> framework.id, category |-> category.id]))

generateCategoryPages(docs) ==
    LET frameworks == loadAllFrameworks
        PagesOf(framework) ==
            LET categories == loadFrameworkCategories(docs, framework.id)
            IN  [c \in DOMAIN categories |-> generateCategoryPage(framework, categories[c])]
        pages == Flatten([k \in DOMAIN frameworks |-> PagesOf(frameworks[k])])
    IN  [pages |-> pages, stats |-> BuildStats("category", pages)]

\* utils/seo-metadata.ts: the SoftwareSourceCode JSON-LD; codeSample is
\* absent (undefined) or one string, and the empty string adds no member.
generateSnippetJsonLd(snippetName, description, framework, codeSample) ==
    JsonStringify(JObject(
        <<JMember(<<"@","c","o","n","t","e","x","t">>,
                  JString(<<"h","t","t","p","s",":","/","/","s","c","h","e","m","a",".","o","r","g">>)),
          JMember(<<"@","t","y","p","e">>,
                  JString(<<"S","o","f","t","w","a","r","e","S","o","u","r","c","e","C","o","d","e">>)),
          JMember(<<"n","a","m","e">>, JString(snippetName)),
          JMember(<<"d","e","s","c","r","i","p","t","i","o","n">>, JString(description)),
          JMember(<<"p","r","o","g","r","a","m","m","i","n","g","L","a","n","g","u","a","g","e">>,
                  JString(<<"T","y","p","e","S","c","r","i","p","t">>)),
          JMember(<<"f","r","a","m","e","w","o","r","k">>, JString(framework)),
          JMember(<<"c","o","d","e","R","e","p","o","s","i","t","o","r","y">>,
                  JString(<<"h","t","t","p","s",":","/","/","g","i","t","h","u","b",".","c","o","m","/",
                            "i","t","s","t","h","e","a","n","u","r","a","g","/","h","a","n","m","a">>)),
          JMember(<<"l","i","c","e","n","s","e">>, JString(<<"M","I","T">>)),
          JMember(<<"a","u","t","h","o","r">>, JObject(
              <<JMember(<<"@","t","y","p","e">>,
                        JString(<<"O","r","g","a","n","i","z","a","t","i","o","n">>)),
                JMember(<<"n","a","m","e">>, JString(<<"H","a","n","m","a">>)),
                JMember(<<"u","r","l">>, JString(SITE_URL))>>))>>
        \o (IF codeSample # <<>> /\ codeSample[1] # <<>>
            THEN <<JMember(<<"c","o","d","e","S","a","m","p","l","e">>, JObject(
                       <<JMember(<<"@","t","y","p","e">>, JString(<<"C","o","d","e">>)),
                         JMember(<<"t","e","x","t">>, JString(codeSample[1]))>>))>>
            ELSE <<>>)))

\* The comment the code block holds when there is no source code.
SourcePlaceholder ==
    <<"/","/"," ","S","o","u","r","c","e"," ","c","o","d","e"," ","n","o","t"," ",
      "a","v","a","i","l","a","b","l","e">>

\* snippet-pages.ts.  Of the markup, content keeps the code block and the
\* SoftwareSourceCode JSON-LD.
generateSnippetPage(framework, category, snippet, sourceCode) ==
    GeneratedPage(
        PathJoin(<<OUTPUT_DIR, <<"s","n","i","p","p","e","t">>, framework.id, category.id,
                   snippet.id \o <<".","h","t","m","l">>>>),
        [breadcrumb |->
             generateBreadcrumb(
                 HomeAndFramework(framework)
                 \o <<BreadcrumbItem(category.title,
                                     <<"/","f","r","a","m","e","w","o","r","k","/">> \o framework.id
                                     \o <<"/">> \o category.id),
                      BreadcrumbItem(snippet.displayName,
                                     SnippetHref(framework.id, category.id,
                                                 snippet.id))>>),
         code |-> generateCodeBlock(
                      IF sourceCode.kind = "null" THEN SourcePlaceholder
                      ELSE sourceCode.text,
                      <<"t","y","p","e","s","c","r","i","p","t">>),
         jsonLd |-> generateSnippetJsonLd(
                        snippet.displayName, snippet.description, framework.name,
                        IF sourceCode.kind = "null" THEN <<>>
                        ELSE <<sourceCode.text>>)],
        CanonicalMetadata("snippet",
                         [framework |-> framework.id, category |-> category.id,
                          snippet |-> snippet.id]))

\* generateSnippetPage throws when the source code is not a string:
\* escapeHtml calls replace on it.
generateSnippetPageThrows(sourceCode) == sourceCode.kind = "function"

generateSnippetPages(docs) ==
    LET frameworks == loadAllFrameworks
        PagesOfCategory(framework, category) ==
            [i \in DOMAIN category.snippets |->
                generateSnippetPage(framework, category, category.snippets[i],
                                    loadSnippetSource(docs, framework.id,
                                                      category.snippets[i].id))]
        PagesOf(framework) ==
            LET categories == loadFrameworkCategories(docs, framework.id)
            IN  Flatten([c \in DOMAIN categories |->
                            PagesOfCategory(framework, categories[c])])
        pages == Flatten([k \in DOMAIN frameworks |-> PagesOf(frameworks[k])])
    IN  [pages |-> pages, stats |-> BuildStats("snippet", pages)]

\* Array.prototype.filter, for the tests the generators use
RECURSIVE SelectIds(_, _)
SelectIds(categories, ids) ==
    IF categories = <<>> THEN <<>>
    ELSE (IF Head(categories).id \in ids THEN <<Head(categories)>> ELSE <<>>)
         \o SelectIds(Tail(categories), ids)

\* use-case-pages.ts: the entries pushed into useCasesMap, in loop order
\* (framework, category, snippet, use case of the snippet).
UseCaseEntries(docs) ==
    LET frameworks == loadAllFrameworks
        OfSnippet(framework, category, snippet) ==
            LET useCases == extractUseCaseFromSnippet(snippet)
            IN  [u \in DOMAIN useCases |->
                    [useCase |-> useCases[u], frameworkId |-> framework.id,
                     snippet |-> snippet, category |-> category.id]]
        OfCategory(framework, category) ==
            Flatten([i \in DOMAIN category.snippets |->
                        OfSnippet(framework, category, category.snippets[i])])
        OfFramework(framework) ==
            LET categories == loadFrameworkCategories(docs, framework.id)
            IN  Flatten([c \in DOMAIN categories |-> OfCategory(framework, categories[c])])
    IN  Flatten([k \in DOMAIN frameworks |-> OfFramework(frameworks[k])])

\* useCasesMap.get(useCase): the framework ids in the order they were first
\* set, each with its entries in the order they were pushed.
RECURSIVE FrameworkUseCases(_, _, _)
FrameworkUseCases(entries, useCase, seen) ==
    IF entries = <<>> THEN <<>>
    ELSE LET e == Head(entries)
         IN  IF e.useCase = useCase /\ e.frameworkId \notin seen
             THEN <<[frameworkId |-> e.frameworkId,
                     snippets |-> LET mine == SelectSeq(entries,
                                        LAMBDA x : x.useCase = useCase
                                                   /\ x.frameworkId = e.frameworkId)
                                  IN  [i \in DOMAIN mine |->
                                          [snippet |-> mine[i].snippet,
                                           category |-> mine[i].category]]]>>
                  \o FrameworkUseCases(Tail(entries), useCase, seen \cup {e.frameworkId})
             ELSE FrameworkUseCases(Tail(entries), useCase, seen)

\* frameworks.find((f) => f.id === id): the matches, first one first.
FindFramework(frameworks, id) == SelectSeq(frameworks, LAMBDA f : f.id = id)

generateUseCasePage(useCase, framework, snippets) ==
    LET slug == slugify(useCase)
    IN  GeneratedPage(
            PathJoin(<<OUTPUT_DIR, <<"u","s","e","-","c","a","s","e">>, framework.id, slug \o <<".","h","t","m","l">>>>),
            [breadcrumb |->
                 generateBreadcrumb(
                     HomeAndFramework(framework)
                     \o <<BreadcrumbItem(useCase,
                                         <<"/","u","s","e","-","c","a","s","e","/">> \o framework.id
                                         \o <<"/">> \o slug)>>),
             useCase |-> useCase,
             snippets |-> [i \in DOMAIN snippets |->
                              [snippetId |-> snippets[i].snippet.id,
                               href |-> SnippetHref(framework.id, snippets[i].category,
                                                    snippets[i].snippet.id)]]],
            CanonicalMetadata("useCase", [useCase |-> slug, framework |-> framework.id]))

generateUseCasePages(docs) ==
    LET frameworks == loadAllFrameworks
        entries == UseCaseEntries(docs)
        PagesOf(useCase) ==
            LET frameworkUseCases == FrameworkUseCases(entries, useCase, {})
                PageOf(fu) ==
                    LET found == FindFramework(frameworks, fu.frameworkId)
                    IN  IF found = <<>> THEN <<>>
                        ELSE <<generateUseCasePage(useCase, found[1], fu.snippets)>>
            IN  Flatten([j \in DOMAIN frameworkUseCases |-> PageOf(frameworkUseCases[j])])
        pages == Flatten([u \in DOMAIN COMMON_USE_CASES |-> PagesOf(COMMON_USE_CASES[u])])
    IN  [pages |-> pages, stats |-> BuildStats("use-case", pages)]

\* comparison-pages.ts
RECURSIVE findCommonSnippets(_, _)
findCommonSnippets(category1Snippets, category2Snippets) ==
    IF category1Snippets = <<>> THEN <<>>
    ELSE LET s1 == Head(category1Snippets)
             s2 == SelectSeq(category2Snippets, LAMBDA s : s.name = s1.name)
         IN  (IF s2 # <<>>
              THEN <<[name |-> s1.displayName, fw1Code |-> s1.usage,
                      fw2Code |-> s2[1].usage]>>
              ELSE <<>>)
             \o findCommonSnippets(Tail(category1Snippets), category2Snippets)

Comparisons(categories1, categories2) ==
    LET categoryIds1 == {categories1[i].id : i \in DOMAIN categories1}
        commonCategories == SelectIds(categories2, categoryIds1)
        Of(cat2) ==
            LET cat1 == SelectSeq(categories1, LAMBDA c : c.id = cat2.id)
            IN  IF cat1 = <<>> THEN <<>>
                ELSE <<[category |-> cat1[1].title,
                        fw1Snippets |-> cat1[1].snippets,
                        fw2Snippets |-> cat2.snippets,
                        common |-> findCommonSnippets(cat1[1].snippets, cat2.snippets)]>>
    IN  Flatten([j \in DOMAIN commonCategories |-> Of(commonCategories[j])])

\* Generate performance badge
getPerformanceBadge(fwId) ==
    IF fwId = <<"h","o","n","o">> \/ fwId = <<"e","l","y","s","i","a">> THEN <<"E","x","c","e","l","l","e","n","t">>
    ELSE IF fwId = <<"f","a","s","t","i","f","y">> THEN <<"V","e","r","y"," ","H","i","g","h">>
    ELSE <<"G","o","o","d">>

\* The answer of the FAQ entry "Which framework is faster, ... or ...?".
FasterAnswer(fw1, fw2) ==
    (IF getPerformanceBadge(fw1.id) = <<"E","x","c","e","l","l","e","n","t">> THEN fw1.name ELSE fw2.name)
    \o <<" ","g","e","n","e","r","a","l","l","y"," ","h","a","s"," ","b","e","t","t","e","r"," ","r","a","w"," ","p","e","r","f","o","r","m","a","n","c","e"," ","b","e","n","c","h","m","a","r","k","s",","," ","b","u","t"," ","a","c","t","u","a","l"," ","p","e","r","f","o","r","m","a","n","c","e"," ","d","e","p","e","n","d","s"," ","o","n"," ","y","o","u","r"," ","u","s","e"," ","c","a","s","e"," ","a","n","d"," ","w","o","r","k","l","o","a","d",".">>

\* The page of one framework pair, or no page when a framework is unknown.
generateComparisonPage(docs, fw1Id, fw2Id, frameworks) ==
    LET fw1 == FindFramework(frameworks, fw1Id)
        fw2 == FindFramework(frameworks, fw2Id)
    IN  IF fw1 = <<>> \/ fw2 = <<>> THEN <<>>
        ELSE LET slug == slugify(fw1[1].name \o <<"-","v","s","-">> \o fw2[1].name)
             IN  <<GeneratedPage(
                     PathJoin(<<OUTPUT_DIR, <<"c","o","m","p","a","r","e">>, slug \o <<".","h","t","m","l">>>>),
                     [breadcrumb |->
                          generateBreadcrumb(
                              <<BreadcrumbItem(<<"H","o","m","e">>, <<"/">>),
                                BreadcrumbItem(<<"C","o","m","p","a","r","e">>, <<"/","c","o","m","p","a","r","e">>),
                                BreadcrumbItem(fw1[1].name \o <<" ","v","s"," ">>
                                               \o fw2[1].name,
                                               <<"/","c","o","m","p","a","r","e","/">> \o slug)>>),
                      fw1Id |-> fw1Id, fw2Id |-> fw2Id,
                      fw1Name |-> fw1[1].name, fw2Name |-> fw2[1].name,
                      performance |-> <<getPerformanceBadge(fw1[1].id),
                                        getPerformanceBadge(fw2[1].id)>>,
                      fasterAnswer |-> FasterAnswer(fw1[1], fw2[1]),
                      comparisons |-> Comparisons(loadFrameworkCategories(docs, fw1Id),
                                                  loadFrameworkCategories(docs, fw2Id))],
                     CanonicalMetadata("framework", [framework |-> slug]))>>

generateComparisonPages(docs) ==
    LET frameworks == loadAllFrameworks
        pages == Flatten([p \in DOMAIN FRAMEWORK_PAIRS |->
                             generateComparisonPage(docs, FRAMEWORK_PAIRS[p][1],
                                                    FRAMEWORK_PAIRS[p][2], frameworks)])
    IN  [pages |-> pages, stats |-> BuildStats("comparison", pages)]

\* tutorial-pages.ts
\* The snippets of every category of a framework, in one list.
AllSnippets(categories) ==
    Flatten([c \in DOMAIN categories |-> categories[c].snippets])

\* href="/snippet/${framework.id}/${snippet.id}"
SnippetHrefWithoutCategory(frameworkId, snippetId) ==
    <<"/","s","n","i","p","p","e","t","/">> \o frameworkId \o <<"/">> \o snippetId

SnippetItem(framework, snippet) ==
    [snippetId |-> snippet.id,
     href |-> SnippetHrefWithoutCategory(framework.id, snippet.id)]

\* The list "Available Snippets for This Topic"; the three cards of step 2
\* are its first three entries.  categories is what loadFrameworkCategories
\* returns for the framework.
generateTutorialPage(categories, topic, framework) ==
    LET slug == slugify(framework.id \o <<"-">> \o topic)
        relatedSnippets ==
            findRelatedSnippets(
                AllSnippets(categories),
                TUTORIAL_KEYWORDS[CHOOSE t \in DOMAIN TUTORIAL_TOPICS :
                                      TUTORIAL_TOPICS[t] = topic])
    IN  GeneratedPage(
            PathJoin(<<OUTPUT_DIR, <<"g","u","i","d","e">>, slug \o <<".","h","t","m","l">>>>),
            [breadcrumb |->
                 generateBreadcrumb(
                     HomeAndFramework(framework)
                     \o <<BreadcrumbItem(<<"G","u","i","d","e","s">>, <<"/","g","u","i","d","e","/">> \o framework.id),
                          BreadcrumbItem(
                              TUTORIAL_TITLES[CHOOSE t \in DOMAIN TUTORIAL_TOPICS :
                                                 TUTORIAL_TOPICS[t] = topic],
                              <<"/","g","u","i","d","e","/">> \o slug)>>),
             snippets |-> [i \in DOMAIN relatedSnippets |->
                              SnippetItem(framework, relatedSnippets[i])]],
            CanonicalMetadata("guide", [guide |-> slug, framework |-> framework.id]))

generateTutorialPages(docs) ==
    LET frameworks == loadAllFrameworks
        PagesOf(framework) ==
            LET categories == loadFrameworkCategories(docs, framework.id)
            IN  [t \in DOMAIN TUTORIAL_TOPICS |->
                    generateTutorialPage(categories, TUTORIAL_TOPICS[t], framework)]
        pages == Flatten([k \in DOMAIN frameworks |-> PagesOf(frameworks[k])])
    IN  [pages |-> pages, stats |-> BuildStats("tutorial", pages)]

\* tag-pages.ts
\* categories.find((cat) => cat.snippets.some((s) => s.id === snippet.id))
\*   ?.id || "general"
CategoryOfSnippet(categories, snippet) ==
    LET found == SelectSeq(categories,
                           LAMBDA cat : \E i \in DOMAIN cat.snippets :
                                            cat.snippets[i].id = snippet.id)
    IN  IF found = <<>> \/ found[1].id = <<>> THEN general ELSE found[1].id

\* extractTags of each snippet of a list
RECURSIVE TagsOfEach(_)
TagsOfEach(snippets) ==
    IF snippets = <<>> THEN <<>>
    ELSE <<extractTags(Head(snippets))>> \o TagsOfEach(Tail(snippets))

\* The snippets with the tag, each with its category, in the groups of the
\* page: one group for each category, in the order of its first snippet.
\* tagsOf holds extractTags of every snippet of the framework.
TaggedSnippets(categories, allSnippets, tagsOf, tag) ==
    LET tagged == SelectSeq([i \in DOMAIN allSnippets |-> i],
                            LAMBDA i : \E k \in DOMAIN tagsOf[i] : tagsOf[i][k] = tag)
        taggedSnippets ==
            [i \in DOMAIN tagged |->
                [snippet |-> allSnippets[tagged[i]],
                 category |-> CategoryOfSnippet(categories, allSnippets[tagged[i]])]]
        first == SelectSeq([i \in DOMAIN taggedSnippets |-> i],
                           LAMBDA i : \A j \in 1..(i - 1) :
                                          taggedSnippets[j].category
                                              # taggedSnippets[i].category)
    IN  Flatten([g \in DOMAIN first |->
                    SelectSeq(taggedSnippets,
                              LAMBDA item : item.category
                                                = taggedSnippets[first[g]].category)])

\* generateTagPage with the categories of the framework and the tags of
\* their snippets, which it computes anew for every tag.
generateTagPage(categories, tagsOf, tag, framework) ==
    LET slug == slugify(tag)
        taggedSnippets == TaggedSnippets(categories, AllSnippets(categories), tagsOf, tag)
    IN  GeneratedPage(
            PathJoin(<<OUTPUT_DIR, <<"t","a","g">>, framework.id, slug \o <<".","h","t","m","l">>>>),
            [breadcrumb |->
                 generateBreadcrumb(
                     HomeAndFramework(framework)
                     \o <<BreadcrumbItem(<<"T","a","g","s">>, <<"/","t","a","g","/">> \o framework.id),
                          BreadcrumbItem(tag, <<"/","t","a","g","/">> \o framework.id
                                              \o <<"/">> \o slug)>>),
             tag |-> tag,
             snippets |-> [i \in DOMAIN taggedSnippets |->
                              [snippetId |-> taggedSnippets[i].snippet.id,
                               href |-> SnippetHref(framework.id,
                                                    taggedSnippets[i].category,
                                                    taggedSnippets[i].snippet.id)]]],
            CanonicalMetadata("tag", [tag |-> slug, framework |-> framework.id]))

generateTagPages(docs) ==
    LET frameworks == loadAllFrameworks
        PagesOf(framework) ==
            LET categories == loadFrameworkCategories(docs, framework.id)
                allSnippets == AllSnippets(categories)
                tagsOf == TagsOfEach(allSnippets)
            IN  [t \in DOMAIN TAGS |-> generateTagPage(categories, tagsOf, TAGS[t], framework)]
        pages == Flatten([k \in DOMAIN frameworks |-> PagesOf(frameworks[k])])
    IN  [pages |-> pages, stats |-> BuildStats("tag", pages)]

\* search-pages.ts
\* What loadFrameworkCategories returns for each of the frameworks; every
\* call of one build returns the same, the content being read only.
RECURSIVE LoadEach(_, _)
LoadEach(docs, frameworks) ==
    IF frameworks = <<>> THEN <<>>
    ELSE <<loadFrameworkCategories(docs, Head(frameworks).id)>>
             \o LoadEach(docs, Tail(frameworks))

LoadedCategories(docs) == LoadEach(docs, loadAllFrameworks)

\* The results of one query before the final sort: for each framework, for
\* each category, the matches of findMatchingSnippets in their order.
GatheredResults(loaded, query) ==
    LET frameworks == loadAllFrameworks
        ResultsOf(f) ==
            LET categories == loaded[f]
                framework == frameworks[f]
                MatchesOf(category) ==
                    LET matches == findMatchingSnippets(category.snippets, query)
                    IN  [m \in DOMAIN matches |->
                            [snippet |-> matches[m].snippet,
                             score |-> matches[m].score,
                             framework |-> framework.id,
                             category |-> category.id]]
            IN  Flatten([c \in DOMAIN categories |-> MatchesOf(categories[c])])
    IN  Flatten([f \in DOMAIN frameworks |-> ResultsOf(f)])

\* allResults.sort((a, b) => b.score - a.score)
AllResults(loaded, query) == SortByScore(GatheredResults(loaded, query))

MaxResultCards == 20

\* One <article class="result-card"> for each of results.slice(0, 20).
ResultCards(found) ==
    [i \in 1..Min({Len(found), MaxResultCards}) |->
        [snippetId |-> found[i].snippet.id,
         href |-> SnippetHref(found[i].framework, found[i].category,
                              found[i].snippet.id),
         displayName |-> found[i].snippet.displayName]]

generateSearchPage(loaded, query) ==
    LET slug == slugify(query)
        allResults == AllResults(loaded, query)
    IN  GeneratedPage(
            PathJoin(<<OUTPUT_DIR, <<"s","e","a","r","c","h">>, slug \o <<".","h","t","m","l">>>>),
            [breadcrumb |->
                 generateBreadcrumb(
                     <<BreadcrumbItem(<<"H","o","m","e">>, <<"/">>),
                       BreadcrumbItem(<<"S","e","a","r","c","h">>, <<"/","s","e","a","r","c","h">>),
                       BreadcrumbItem(query, <<"/","s","e","a","r","c","h","/">> \o slug)>>),
             query |-> query,
             snippets |-> ResultCards(allResults)],
            CanonicalMetadata("search", [query |-> slug]))

generateSearchPages(docs) ==
    LET loaded == LoadedCategories(docs)
        pages == [q \in DOMAIN SEARCH_QUERIES |-> generateSearchPage(loaded, SEARCH_QUERIES[q])]
    IN  [pages |-> pages, stats |-> BuildStats("search", pages)]

\* pattern-pages.ts
MaxImplementationCards == 6

\* One <article class="implementation-card"> for each of
\* relatedSnippets.slice(0, 6).
generatePatternPage(categories, pattern, framework) ==
    LET slug == slugify(framework.id \o <<"-">> \o pattern)
        relatedSnippets ==
            findPatternSnippets(
                AllSnippets(categories),
                PATTERN_KEYWORDS[CHOOSE p \in DOMAIN PATTERNS :
                                     PATTERNS[p] = pattern])
    IN  GeneratedPage(
            PathJoin(<<OUTPUT_DIR, <<"p","a","t","t","e","r","n">>, slug \o <<".","h","t","m","l">>>>),
            [breadcrumb |->
                 generateBreadcrumb(
                     HomeAndFramework(framework)
                     \o <<BreadcrumbItem(<<"P","a","t","t","e","r","n","s">>, <<"/","p","a","t","t","e","r","n","/">> \o framework.id),
                          BreadcrumbItem(
                              PATTERN_NAMES[CHOOSE p \in DOMAIN PATTERNS :
                                               PATTERNS[p] = pattern],
                              <<"/","p","a","t","t","e","r","n","/">> \o slug)>>),
             snippets |-> [i \in 1..Min({Len(relatedSnippets), MaxImplementationCards}) |->
                              SnippetItem(framework, relatedSnippets[i].snippet)]],
            CanonicalMetadata("pattern", [pattern |-> slug, framework |-> framework.id]))

generatePatternPages(docs) ==
    LET frameworks == loadAllFrameworks
        PagesOf(framework) ==
            LET categories == loadFrameworkCategories(docs, framework.id)
            IN  [t \in DOMAIN PATTERNS |->
                    generatePatternPage(categories, PATTERNS[t], framework)]
        pages == Flatten([k \in DOMAIN frameworks |-> PagesOf(frameworks[k])])
    IN  [pages |-> pages, stats |-> BuildStats("pattern", pages)]

(***************************************************************************)
(* build() (index.ts): the nine generators one after another, then         *)
(* sitemap.xml, robots.txt and build-stats.json                            *)
(***************************************************************************)

\* The generators in the order build() calls them.
Generators ==
    <<"framework", "category", "snippet", "useCase", "comparison",
      "tutorial", "tag", "search", "pattern">>

\* const allPages = [...frameworkResult.pages, ..., ...patternResult.pages]
AllPages(res) ==
    Flatten([g \in DOMAIN Generators |-> res[Generators[g]].pages])

\* generateSitemap: one entry for each page
generateSitemap(pages) ==
    [i \in DOMAIN pages |->
        [url |-> SITE_URL \o pages[i].path,
         changefreq |-> "weekly",
         priority |-> IF pages[i].path = <<"/">> THEN "1.0" ELSE "0.8"]]

\* generateRobotsTxt: the Sitemap line
generateRobotsTxt == [sitemap |-> SITE_URL \o <<"/","s","i","t","e","m","a","p",".","x","m","l">>]

\* A build-stats.json that leaves the pattern pages out of the total.
generateBuildStatsWithoutPattern(stats) ==
    [totalPages |->
         stats.framework.totalPages + stats.category.totalPages
       + stats.snippet.totalPages + stats.useCase.totalPages
       + stats.comparison.totalPages + stats.tutorial.totalPages
       + stats.tag.totalPages + stats.search.totalPages,
     pagesByType |-> [g \in DOMAIN stats |-> stats[g].totalPages]]

\* generateBuildStats: statsJson without the date and the build time
generateBuildStats(stats) ==
    [totalPages |->
         stats.framework.totalPages + stats.category.totalPages
       + stats.snippet.totalPages + stats.useCase.totalPages
       + stats.comparison.totalPages + stats.tutorial.totalPages
       + stats.tag.totalPages + stats.search.totalPages
       + stats.pattern.totalPages,
     pagesByType |->
         [framework |-> stats.framework.totalPages,
          category |-> stats.category.totalPages,
          snippet |-> stats.snippet.totalPages,
          useCase |-> stats.useCase.totalPages,
          comparison |-> stats.comparison.totalPages,
          tutorial |-> stats.tutorial.totalPages,
          tag |-> stats.tag.totalPages,
          search |-> stats.search.totalPages,
          pattern |-> stats.pattern.totalPages]]

\* The content of the build: snippets, categories and what the loader
\* returns for each framework.
WithUsage(snippet, usage) == [snippet EXCEPT !.usage = usage]

corsSnippet ==
    WithUsage(Snippet(<<"c","o","r","s">>, <<"c","o","r","s">>, <<"C","O","R","S">>, <<"C","r","o","s","s","-","o","r","i","g","i","n"," ","r","e","q","u","e","s","t","s">>,
                      <<"A","l","l","o","w"," ","o","r","i","g","i","n","s">>, <<<<"O","r","i","g","i","n"," ","l","i","s","t">>>>,
                      <<"s","r","c","/","m","i","d","d","l","e","w","a","r","e","/","c","o","r","s",".","t","s">>),
              <<"a","p","p",".","u","s","e","(","c","o","r","s","(",")",")">>)

strictCorsSnippet ==
    WithUsage(Snippet(<<"c","o","r","s","-","s","t","r","i","c","t">>, <<"c","o","r","s">>, <<"S","t","r","i","c","t"," ","C","O","R","S">>, <<"S","a","m","e","-","s","i","t","e"," ","o","n","l","y">>,
                      <<"R","e","f","u","s","e"," ","o","r","i","g","i","n","s">>, <<>>, <<"s","r","c","/","m","i","d","d","l","e","w","a","r","e","/","s","t","r","i","c","t",".","t","s">>),
              <<"a","p","p",".","u","s","e","(","s","t","r","i","c","t","(",")",")">>)

jwtSnippet ==
    WithUsage(Snippet(<<"j","w","t","-","a","u","t","h">>, <<"j","w","t">>, <<"J","W","T"," ","A","u","t","h">>, <<"J","W","T"," ","l","o","g","i","n">>,
                      <<"C","h","e","c","k"," ","a"," ","t","o","k","e","n">>, <<<<"B","e","a","r","e","r">>, <<"R","e","f","r","e","s","h">>>>,
                      <<"s","r","c","/","m","i","d","d","l","e","w","a","r","e","/","j","w","t",".","t","s">>),
              <<"a","p","p",".","u","s","e","(","j","w","t","(",")",")">>)

helloSnippet ==
    WithUsage(Snippet(<<"h","e","l","l","o">>, <<"h","e","l","l","o">>, <<"H","e","l","l","o">>, <<"G","r","e","e","t","s">>, <<"S","a","y","s"," ","h","i">>,
                      <<>>, <<"s","r","c","/","h","e","l","l","o",".","t","s">>),
              <<"a","p","p",".","u","s","e","(","h","e","l","l","o","(",")",")">>)

bearerSnippet ==
    WithUsage(Snippet(<<"b","e","a","r","e","r">>, <<"b","e","a","r","e","r">>, <<"B","e","a","r","e","r"," ","A","u","t","h">>, <<"B","e","a","r","e","r"," ","t","o","k","e","n"," ","m","i","d","d","l","e","w","a","r","e">>,
                      <<"F","a","s","t","i","f","y"," ","j","w","t"," ","h","e","a","d","e","r"," ","g","u","a","r","d">>, <<>>, <<"s","r","c","/","m","i","d","d","l","e","w","a","r","e","/","b","e","a","r","e","r",".","t","s">>),
              <<"a","p","p",".","u","s","e","(","b","e","a","r","e","r","(",")",")">>)

BuildSnippets == {corsSnippet, strictCorsSnippet, jwtSnippet, helloSnippet}

\* The largest number of snippets of a category.
MaxSnippets == 2

SnippetLists == StringsUpTo(BuildSnippets, MaxSnippets)

Category(id, title, snippets) ==
    [id |-> id, title |-> title, description |-> <<>>, snippets |-> snippets]

\* The directory of a framework whose index lists one document for each
\* category of the list, the i-th named after the category's id and i, with
\* the category's snippets in one subcategory, and without a source map.
DirectoryOf(categories) ==
    LET name(i) == categories[i].id \o <<"-", DigitChars[i + 1]>>
    IN  Directory(
            JsonDocument(FrameworkContent(
                <<[i \in DOMAIN categories |-> [id |-> name(i)]]>>)),
            [i \in DOMAIN categories |->
                [name |-> name(i),
                 file |-> JsonDocument(CategoryData(
                     categories[i].id, categories[i].title,
                     categories[i].description,
                     <<<<[snippets |-> categories[i].snippets]>>>>))]],
            Unreadable)

Middleware(snippets) == Category(<<"m","i","d","d","l","e","w","a","r","e">>, <<"M","i","d","d","l","e","w","a","r","e">>, snippets)

Auth(snippets) == Category(<<"a","u","t","h">>, <<"A","u","t","h">>, snippets)

\* One category with every snippet list, or two categories, which may carry
\* the same id (two category files holding the same id).
ExpressDocs ==
    {<<>>} \cup {<<Middleware(l)>> : l \in SnippetLists}
           \cup {<<Middleware(<<corsSnippet>>), second>> :
                     second \in {Auth(<<jwtSnippet>>), Auth(<<corsSnippet>>),
                                 Middleware(<<jwtSnippet>>), Middleware(<<corsSnippet>>)}}

HonoDocs ==
    {<<>>, <<Middleware(<<corsSnippet>>)>>,
     <<Middleware(<<helloSnippet, strictCorsSnippet>>)>>,
     <<Auth(<<jwtSnippet, bearerSnippet>>)>>}

\* The frameworks other than the first two have no index document: the
\* loader returns no category for them.
BuildDocs ==
    {[k \in {loadAllFrameworks[i].id : i \in DOMAIN loadAllFrameworks} |->
         IF k = loadAllFrameworks[1].id THEN DirectoryOf(express)
         ELSE IF k = loadAllFrameworks[2].id THEN DirectoryOf(hono)
         ELSE Directory(Unreadable, <<>>, Unreadable)] :
        express \in ExpressDocs, hono \in HonoDocs}

BuildInit ==
    /\ buildPc = "framework"
    /\ buildDocs \in BuildDocs
    /\ results = <<>>
    /\ sitemap = <<>>
    /\ robotsTxt = <<>>
    /\ buildStats = <<>>
    /\ SlugIdle /\ SearchIdle /\ ClassifyIdle /\ PageIdle /\ CrumbIdle /\ LoadIdle /\ SourceIdle /\ MetaIdle /\ RenderIdle /\ RunIdle /\ MatchIdle /\ LdIdle

\* One generator has run: its result is kept and build() goes on.
Generated(generator, result, next) ==
    /\ buildPc = generator
    /\ results' = results @@ (generator :> result)
    /\ buildPc' = next
    /\ UNCHANGED <<buildDocs, sitemap, robotsTxt, buildStats, exceptBuild>>

GenerateFrameworkPages == Generated("framework", generateFrameworkPages, "category")

GenerateCategoryPages == Generated("category", generateCategoryPages(buildDocs), "snippet")

GenerateSnippetPages == Generated("snippet", generateSnippetPages(buildDocs), "useCase")

GenerateUseCasePages == Generated("useCase", generateUseCasePages(buildDocs), "comparison")

GenerateComparisonPages ==
    Generated("comparison", generateComparisonPages(buildDocs), "tutorial")

GenerateTutorialPages == Generated("tutorial", generateTutorialPages(buildDocs), "tag")

GenerateTagPages == Generated("tag", generateTagPages(buildDocs), "search")

GenerateSearchPages == Generated("search", generateSearchPages(buildDocs), "pattern")

GeneratePatternPages == Generated("pattern", generatePatternPages(buildDocs), "sitemap")

GenerateSitemap ==
    /\ buildPc = "sitemap"
    /\ sitemap' = generateSitemap(AllPages(results))
    /\ buildPc' = "robots"
    /\ UNCHANGED <<buildDocs, results, robotsTxt, buildStats, exceptBuild>>

GenerateRobotsTxt ==
    /\ buildPc = "robots"
    /\ robotsTxt' = generateRobotsTxt
    /\ buildPc' = "stats"
    /\ UNCHANGED <<buildDocs, results, sitemap, buildStats, exceptBuild>>

GenerateBuildStats ==
    /\ buildPc = "stats"
    /\ buildStats' = generateBuildStats([g \in DOMAIN results |-> results[g].stats])
    /\ buildPc' = "done"
    /\ UNCHANGED <<buildDocs, results, sitemap, robotsTxt, exceptBuild>>

BuildNext ==
    \/ GenerateFrameworkPages
    \/ GenerateCategoryPages
    \/ GenerateSnippetPages
    \/ GenerateUseCasePages
    \/ GenerateComparisonPages
    \/ GenerateTutorialPages
    \/ GenerateTagPages
    \/ GenerateSearchPages
    \/ GeneratePatternPages
    \/ GenerateSitemap
    \/ GenerateRobotsTxt
    \/ GenerateBuildStats

SpecBuild == BuildInit /\ [][BuildNext]_vars

(***************************************************************************)
(* Properties of one build                                                 *)
(***************************************************************************)

\* The pages emitted so far, in the order of the generators.
EmittedPages ==
    Flatten([g \in DOMAIN Generators |->
                IF Generators[g] \in DOMAIN results
                THEN results[Generators[g]].pages ELSE <<>>])

\* C1: no two pages emitted by the generators have the same output path,
\* and no two <loc> values of the sitemap are equal.
PathsUnique ==
    LET paths == [i \in DOMAIN EmittedPages |-> EmittedPages[i].path]
        locs == [i \in DOMAIN sitemap |-> sitemap[i].url]
    IN  /\ Cardinality({paths[i] : i \in DOMAIN paths}) = Len(paths)
        /\ Cardinality({locs[i] : i \in DOMAIN locs}) = Len(locs)

IsPrefix(p, s) == Len(p) <= Len(s) /\ SubSeq(s, 1, Len(p)) = p

IsSuffix(p, s) == Len(p) <= Len(s) /\ SubSeq(s, Len(s) - Len(p) + 1, Len(s)) = p

\* The emitted path without the output root and without ".html".
LogicalPath(path) ==
    LET rest == IF IsPrefix(OUTPUT_DIR, path)
                THEN SubSeq(path, Len(OUTPUT_DIR) + 1, Len(path)) ELSE path
    IN  IF IsSuffix(<<".","h","t","m","l">>, rest) THEN SubSeq(rest, 1, Len(rest) - 5) ELSE rest

\* C2: the canonical URL of every emitted page is the site origin followed
\* by the page's logical path.
CanonicalMatchesPath ==
    LET pages == EmittedPages
    IN  \A i \in DOMAIN pages :
            pages[i].metadata.canonical = SITE_URL \o LogicalPath(pages[i].path)

RECURSIVE Sum(_)
Sum(counts) == IF counts = <<>> THEN 0 ELSE Head(counts) + Sum(Tail(counts))

\* C3: after a build the sitemap has as many entries as the nine generators
\* emitted pages, which is totalPages of build-stats.json and the sum of
\* its nine pagesByType counts; every generator reports as totalPages the
\* number of pages it returned.
CountsAgree ==
    /\ \A g \in DOMAIN results : results[g].stats.totalPages = Len(results[g].pages)
    /\ buildPc \in {"robots", "stats", "done"} => Len(sitemap) = Len(EmittedPages)
    /\ buildPc = "done" =>
           /\ buildStats.totalPages = Len(sitemap)
           /\ DOMAIN buildStats.pagesByType = {Generators[g] : g \in DOMAIN Generators}
           /\ buildStats.totalPages =
                  Sum([g \in DOMAIN Generators |-> buildStats.pagesByType[Generators[g]]])

\* A finished build of a content with two Express.js categories.
CountsAgreeWitness ==
    /\ buildPc = "done"
    /\ buildStats.pagesByType.category = 3
    /\ buildStats.pagesByType.snippet = 3
    /\ buildStats.pagesByType.useCase > 0
    /\ Len(sitemap) = buildStats.totalPages

\* The names of a snippet list.
Names(snippets) == {snippets[i].name : i \in DOMAIN snippets}

\* The first snippet of the list that has the name.
FirstNamed(snippets, name) ==
    snippets[Min({i \in DOMAIN snippets : snippets[i].name = name})]

\* The list holds one entry for each name of both lists, labelled with the
\* first framework's displayName, in the first framework's order.
OnePerCommonName(common, snippets1, snippets2) ==
    LET both == Names(snippets1) \cap Names(snippets2)
        firsts == SelectSeq([i \in DOMAIN snippets1 |-> i],
                            LAMBDA i : /\ snippets1[i].name \in both
                                       /\ snippets1[i] = FirstNamed(snippets1, snippets1[i].name)
                                       /\ \A h \in 1..(i - 1) :
                                              snippets1[h].name # snippets1[i].name)
    IN  /\ Len(common) = Cardinality(both)
        /\ Len(common) = Len(firsts)
        /\ \A j \in DOMAIN common :
               j \in DOMAIN firsts => common[j].name = snippets1[firsts[j]].displayName

\* C9: on the comparison page of a framework pair, the common list of a
\* category both frameworks have holds exactly one entry for each snippet
\* name of both snippet lists, labelled with the first framework's
\* displayName, in the first framework's order.
CommonListsOnePerName ==
    "comparison" \in DOMAIN results =>
        \A k \in DOMAIN results.comparison.pages :
            LET page == results.comparison.pages[k]
                categories1 == loadFrameworkCategories(buildDocs, page.content.fw1Id)
                categories2 == loadFrameworkCategories(buildDocs, page.content.fw2Id)
                common2 == SelectIds(categories2,
                                     {categories1[i].id : i \in DOMAIN categories1})
            IN  /\ Len(page.content.comparisons) = Len(common2)
                /\ \A j \in DOMAIN common2 :
                       j \in DOMAIN page.content.comparisons =>
                           LET cat1 == categories1[Min({i \in DOMAIN categories1 :
                                                           categories1[i].id = common2[j].id})]
                           IN  OnePerCommonName(page.content.comparisons[j].common,
                                                cat1.snippets, common2[j].snippets)

\* The categories of the content, each with its framework, in build order.
DocCategories ==
    LET frameworks == loadAllFrameworks
    IN  Flatten([k \in DOMAIN frameworks |->
                    LET categories ==
                            loadFrameworkCategories(buildDocs, frameworks[k].id)
                    IN  [c \in DOMAIN categories |->
                            [framework |-> frameworks[k],
                             category |-> categories[c]]]])

\* C10: the page of a category with n snippets has n cards, in the order of
\* the snippet list, the i-th linking to
\* /snippet/<frameworkId>/<categoryId>/<id of the i-th snippet>.
CategoryCards ==
    "category" \in DOMAIN results =>
        /\ Len(results.category.pages) = Len(DocCategories)
        /\ \A k \in DOMAIN DocCategories :
               LET cards == results.category.pages[k].content.cards
                   fc == DocCategories[k]
               IN  /\ Len(cards) = Len(fc.category.snippets)
                   /\ \A i \in DOMAIN cards :
                          /\ cards[i].snippetId = fc.category.snippets[i].id
                          /\ cards[i].href =
                                 <<"/","s","n","i","p","p","e","t","/">> \o fc.framework.id \o <<"/">>
                                     \o fc.category.id \o <<"/">>
                                     \o fc.category.snippets[i].id

\* The category page of a category with two snippets whose ids differ from
\* their names.
CategoryCardsWitness ==
    /\ "category" \in DOMAIN results
    /\ \E k \in DOMAIN results.category.pages :
           LET cards == results.category.pages[k].content.cards
           IN  /\ Len(cards) = 2
               /\ cards[1].href = <<"/","s","n","i","p","p","e","t","/","e","x","p","r","e","s","s","/","m","i","d","d","l","e","w","a","r","e","/","j","w","t","-","a","u","t","h">>
               /\ cards[2].href = <<"/","s","n","i","p","p","e","t","/","e","x","p","r","e","s","s","/","m","i","d","d","l","e","w","a","r","e","/","c","o","r","s","-","s","t","r","i","c","t">>

(***************************************************************************)
(* generateFullPage under test.                                            *)
(***************************************************************************)

PageTitles ==
    {<<"C","O","R","S"," ","-"," ","E","x","p","r","e","s","s"," ","S",
       "n","i","p","p","e","t"," ","|"," ","H","a","n","m","a">>, <<"R","&","D"," ","<","b",">">>,
     <<"<","/","t","i","t","l","e",">","<","t","i","t","l","e",">","x">>}

PageDescriptions == {<<"A","d","d"," ","C","O","R","S"," ","t","o"," ","E","x","p","r",
                       "e","s","s",".">>, <<"S","a","y"," ","\"","h","i","\""," ","&"," ","g","o">>}

PageCanonicals ==
    {SITE_URL \o <<"/","s","n","i","p","p","e","t","/","e","x","p","r","e","s","s",
                   "/","m","i","d","d","l","e","w","a","r","e","/","c","o","r","s">>,
     SITE_URL \o <<"/","s","e","a","r","c","h","/","a","&","b">>,
     SITE_URL \o <<"/","s","n","i","p","p","e","t","/","e","x","p","r","e","s","s",
                   "/","s","a","y","-","\"","h","i","\"","/","c","o","r","s">>}

PageImages == {<<>>, <<SITE_URL \o <<"/","o","g",".","p","n","g">>>>}

PageOgTitles == {<<>>, <<<<"C","O","R","S">>>>}

\* The first two contents have no title element and no canonical link of
\* their own.
PageContents ==
    {<<>>, <<"<","m","a","i","n",">","<","h","1",">","C","O","R","S","<","/",
             "h","1",">","<","p",">","a"," ","&","l","t",";"," ","b","<","/",
             "p",">","<","/","m","a","i","n",">">>,
     <<"<","m","a","i","n",">","<","s","v","g",">","<","t","i","t","l",
       "e",">","i","c","o","n","<","/","t","i","t","l","e",">","<","/",
       "s","v","g",">","<","/","m","a","i","n",">">>}

PageJsonLds ==
    {<<>>, <<<<"{","\"","@","t","y","p","e","\"",":","\"","S","o","f","t","w","a",
               "r","e","S","o","u","r","c","e","C","o","d","e","\"",",","\"","n",
               "a","m","e","\"",":","\"","C","O","R","S","\"","}">>>>,
     <<<<"{","\"","n","a","m","e","\"",":","\"","C","l","o","s","e"," ","<",
         "/","s","c","r","i","p","t",">","<","t","i","t","l","e",">","C",
         "O","R","S","<","/","t","i","t","l","e",">","\"","}">>>>}

PageInit ==
    /\ pagePc = "ready"
    /\ pageMetadata \in
          {PageMetadata(t, d, c, ot, <<>>, img, n) :
              t \in PageTitles, d \in PageDescriptions, c \in PageCanonicals,
              ot \in PageOgTitles, img \in PageImages, n \in BOOLEAN}
    /\ pageContent \in PageContents
    /\ pageJsonLd \in PageJsonLds
    /\ pageDocument = <<>>
    /\ SlugIdle /\ SearchIdle /\ ClassifyIdle /\ BuildIdle /\ CrumbIdle /\ LoadIdle /\ SourceIdle /\ MetaIdle /\ RenderIdle /\ RunIdle /\ MatchIdle /\ LdIdle

GenerateFullPage ==
    /\ pagePc = "ready"
    /\ pageDocument' = generateFullPage(pageMetadata, pageContent, pageJsonLd)
    /\ pagePc' = "done"
    /\ UNCHANGED <<pageMetadata, pageContent, pageJsonLd>>
    /\ UNCHANGED exceptPage

PageNext == GenerateFullPage

SpecPage == PageInit /\ [][PageNext]_vars

HasOwnTitleOrCanonical(content) ==
    LET tokens == ReadDocument(content)
    IN  TitleTexts(tokens) # {} \/ CanonicalLinks(tokens) # {}

\* The document starts with the head, ends with the footer, and has the
\* content between them.
HeadContentFooter(document, metadata, content, jsonLd) ==
    LET head == generateHtmlHead(metadata, jsonLd)
        footer == generateHtmlFooter
    IN  document = head \o <<"\n">> \o content \o <<"\n">> \o footer

OneTitleOneCanonical(document, metadata) ==
    LET tokens == ReadDocument(document)
        titles == TitleTexts(tokens)
        links == CanonicalLinks(tokens)
    IN  /\ Cardinality(titles) = 1
        /\ \A t \in titles : t[2] = metadata.title
        /\ Cardinality(links) = 1
        /\ \A l \in links : l[2] = <<metadata.canonical>>

\* C11: the document generateFullPage returns is the head, the content and
\* the footer in that order, and for a content with no title element and no
\* canonical link of its own it has exactly one title element, whose text
\* is metadata.title, and exactly one <link rel="canonical">, whose href is
\* metadata.canonical.
FullPageDocument ==
    pagePc = "done" =>
        /\ HeadContentFooter(pageDocument, pageMetadata, pageContent,
                             pageJsonLd)
        /\ ~HasOwnTitleOrCanonical(pageContent) =>
              OneTitleOneCanonical(pageDocument, pageMetadata)

(***************************************************************************)
(* generateBreadcrumbJsonLd (utils/seo-metadata.ts) under test.            *)
(***************************************************************************)

\* The mutant of generateBreadcrumbJsonLd that counts positions from zero.
generateBreadcrumbJsonLdFromZero(items) ==
    JsonStringify(JObject(<<
        JMember(<<"@","c","o","n","t","e","x","t">>, JString(<<"h","t","t","p","s",":","/","/","s","c","h","e","m","a",".","o",
                                        "r","g">>)),
        JMember(<<"@","t","y","p","e">>, JString(<<"B","r","e","a","d","c","r","u","m","b","L","i","s","t">>)),
        JMember(<<"i","t","e","m","L","i","s","t","E","l","e","m","e","n","t">>, JArray(
            [i \in 1..Len(items) |->
                JObject(<<JMember(<<"@","t","y","p","e">>, JString(<<"L","i","s","t","I","t","e","m">>)),
                          JMember(<<"p","o","s","i","t","i","o","n">>, JNumber(i - 1)),
                          JMember(<<"n","a","m","e">>, JString(items[i].name)),
                          JMember(<<"i","t","e","m">>, JString(items[i].url))>>)]))>>))

\* items.map((item, index) => ...): the element at index + 1 of the model's
\* sequence has the position index + 1.
generateBreadcrumbJsonLd(items) ==
    JsonStringify(JObject(<<
        JMember(<<"@","c","o","n","t","e","x","t">>, JString(<<"h","t","t","p","s",":","/","/","s","c","h","e","m","a",".","o",
                                        "r","g">>)),
        JMember(<<"@","t","y","p","e">>, JString(<<"B","r","e","a","d","c","r","u","m","b","L","i","s","t">>)),
        JMember(<<"i","t","e","m","L","i","s","t","E","l","e","m","e","n","t">>, JArray(
            [i \in 1..Len(items) |->
                JObject(<<JMember(<<"@","t","y","p","e">>, JString(<<"L","i","s","t","I","t","e","m">>)),
                          JMember(<<"p","o","s","i","t","i","o","n">>, JNumber((i - 1) + 1)),
                          JMember(<<"n","a","m","e">>, JString(items[i].name)),
                          JMember(<<"i","t","e","m">>, JString(items[i].url))>>)]))>>))

MaxCrumbs == 3

CrumbNames == {<<"H","o","m","e">>, <<"T","h","e"," ","\"","b","e","s","t","\""," ","\\"," ","C","O","R",
                           "S">>, <<>>}

CrumbUrls == {SITE_URL, SITE_URL \o <<"/","f","r","a","m","e","w","o","r","k","/","e","x","p","r","e",
                                      "s","s">>}

CrumbInit ==
    /\ crumbPc = "ready"
    /\ crumbItems \in
          UNION {[1..k -> {BreadcrumbItem(n, u) :
                              n \in CrumbNames, u \in CrumbUrls}] :
                    k \in 0..MaxCrumbs}
    /\ crumbJsonLd = <<>>
    /\ SlugIdle /\ SearchIdle /\ ClassifyIdle /\ BuildIdle /\ PageIdle /\ LoadIdle /\ SourceIdle /\ MetaIdle /\ RenderIdle /\ RunIdle /\ MatchIdle /\ LdIdle

GenerateBreadcrumbJsonLd ==
    /\ crumbPc = "ready"
    /\ crumbJsonLd' = generateBreadcrumbJsonLd(crumbItems)
    /\ crumbPc' = "done"
    /\ UNCHANGED crumbItems
    /\ UNCHANGED exceptCrumb

CrumbNext == GenerateBreadcrumbJsonLd

SpecCrumb == CrumbInit /\ [][CrumbNext]_vars

\* What a reader of the JSON-LD finds: the itemListElement array, as an
\* optional value.
ItemListElement(jsonLd) ==
    LET parsed == JsonParse(jsonLd)
    IN  IF parsed = <<>> THEN <<>>
        ELSE JsonGet(parsed[1], <<"i","t","e","m","L","i","s","t","E","l","e","m","e","n","t">>)

\* C12: the itemListElement of the breadcrumb JSON-LD has the length of the
\* input, and its element at index i has the position i + 1 (the i-th of
\* the sequence, counted from one, has its own number) and the name and
\* the url of the i-th input item; for the empty list it is empty.
BreadcrumbListPositions ==
    crumbPc = "done" =>
        LET list == ItemListElement(crumbJsonLd)
        IN  /\ list # <<>>
            /\ list[1].t = "array"
            /\ Len(list[1].m) = Len(crumbItems)
            /\ \A i \in 1..Len(crumbItems) :
                  /\ JsonGet(list[1].m[i], <<"p","o","s","i","t","i","o","n">>) = <<JNumber(i)>>
                  /\ JsonGet(list[1].m[i], <<"n","a","m","e">>)
                        = <<JString(crumbItems[i].name)>>
                  /\ JsonGet(list[1].m[i], <<"i","t","e","m">>)
                        = <<JString(crumbItems[i].url)>>

BreadcrumbListPositionsWitness ==
    /\ crumbPc = "done"
    /\ Len(crumbItems) = MaxCrumbs
    /\ Includes(crumbItems[2].name, <<"\"">>)
    /\ Len(ItemListElement(crumbJsonLd)[1].m) = MaxCrumbs

(***************************************************************************)
(* loadFrameworkCategories under test, on the directory of one framework.  *)
(***************************************************************************)

MaxCategoryFiles == 3

LoadFramework == loadAllFrameworks[1].id

LoadNames == {<<"m","i","d","d","l","e","w","a","r","e">>, <<"a","u","t","h">>, <<"d","b">>}

\* A category document named n: missing or unreadable, not JSON, the JSON
\* null, an object without subcategories, or an object with two
\* subcategories.
LoadFiles(n) ==
    {Unreadable, Unparsable, JsonNull,
     JsonDocument(CategoryData(n, n, <<>>, <<>>)),
     JsonDocument(CategoryData(n, n, <<>>,
         <<<<[snippets |-> <<corsSnippet>>],
             [snippets |-> <<jwtSnippet>>]>>>>))}

LoadIndexes ==
    {Unreadable, Unparsable, JsonNull, JsonDocument(FrameworkContent(<<>>))}
    \cup {JsonDocument(FrameworkContent(<<[i \in DOMAIN names |->
                                             [id |-> names[i]]]>>)) :
             names \in StringsUpTo(LoadNames, MaxCategoryFiles)}

LoadDirectories ==
    {Directory(index, <<[name |-> <<"m","i","d","d","l","e","w","a","r","e">>, file |-> m],
                        [name |-> <<"a","u","t","h">>, file |-> a]>>,
                  Unreadable) :
        index \in LoadIndexes, m \in LoadFiles(<<"m","i","d","d","l","e","w","a","r","e">>),
        a \in LoadFiles(<<"a","u","t","h">>)}

LoadInit ==
    /\ loadPc = "ready"
    /\ loadDocs \in {[k \in {LoadFramework} |-> d] : d \in LoadDirectories}
    /\ loadResult = <<>>
    /\ SlugIdle /\ SearchIdle /\ ClassifyIdle /\ BuildIdle /\ PageIdle /\ CrumbIdle /\ SourceIdle /\ MetaIdle /\ RenderIdle /\ RunIdle /\ MatchIdle /\ LdIdle

LoadFrameworkCategories ==
    /\ loadPc = "ready"
    /\ loadResult' = loadFrameworkCategories(loadDocs, LoadFramework)
    /\ loadPc' = "done"
    /\ UNCHANGED loadDocs
    /\ UNCHANGED exceptLoad

LoadNext == LoadFrameworkCategories

SpecLoad == LoadInit /\ [][LoadNext]_vars

\* The category ids the index lists, in its order, when it can be read and
\* lists any.
ListedCategories(docs, frameworkId) ==
    LET index == docs[frameworkId].index
    IN  IF index.state = "object" /\ index.data.categoryFiles # <<>>
        THEN [i \in DOMAIN index.data.categoryFiles[1] |->
                 index.data.categoryFiles[1][i].id]
        ELSE <<>>

\* C13: loadFrameworkCategories returns a list whatever the directory holds
\* (no outcome of it is a throw): the empty list when the index cannot be
\* read or parsed or lists no category file, and otherwise the categories
\* of the listed documents that can be read and parsed to an object, in the
\* order of the index, every other listed document being left out alone.
LoaderToleratesBadDocuments ==
    loadPc = "done" =>
        LET listed == ListedCategories(loadDocs, LoadFramework)
            good == SelectSeq(listed, LAMBDA n :
                        ReadCategoryFile(loadDocs, LoadFramework, n).state
                            = "object")
        IN  /\ Len(loadResult) = Len(good)
            /\ \A i \in DOMAIN good :
                  i \in DOMAIN loadResult =>
                      loadResult[i].id
                          = ReadCategoryFile(loadDocs, LoadFramework, good[i]).data.id
            /\ loadDocs[LoadFramework].index.state # "object"
                  => loadResult = <<>>

\* A listed document that is missing between two good ones: the two good
\* ones are returned, in the order of the index.
LoaderToleratesBadDocumentsWitness ==
    /\ loadPc = "done"
    /\ ListedCategories(loadDocs, LoadFramework)
          = <<<<"a","u","t","h">>, <<"d","b">>,
              <<"m","i","d","d","l","e","w","a","r","e">>>>
    /\ Len(loadResult) = 2
    /\ loadResult[1].id = <<"a","u","t","h">>
    /\ loadResult[2].id = <<"m","i","d","d","l","e","w","a","r","e">>

(***************************************************************************)
(* One round of the snippet loop of generateSnippetPages: the source of a  *)
(* snippet is loaded, its page generated and written.                      *)
(***************************************************************************)

SourceFramework == loadAllFrameworks[1]

SourceSnippetIds == {<<"c","o","r","s">>, <<"j","w","t","-","a","u","t","h">>, <<"c","o","n","s","t","r","u","c","t","o","r">>}

SourceSnippets ==
    {[s EXCEPT !.id = id] :
        s \in {corsSnippet, jwtSnippet, helloSnippet}, id \in SourceSnippetIds}

SourceTexts == {<<"a","p","p",".","u","s","e","(","c","o","r","s","(",")",")",";">>, <<"i","f"," ","(","a"," ","<"," ","b"," ","&","&"," ","c",")"," ",
                                        "{"," ","g","o","(","\"","x","\"",")",";"," ","}">>}

\* The source map of the framework: missing, not JSON, the JSON null, or an
\* object: empty, with an entry for another snippet, or with an entry for
\* cors or for constructor (a source code or the empty string).
SourceMaps ==
    {Unreadable, Unparsable, JsonNull, JsonDocument(<<>>),
     JsonDocument(<<SourceEntry(<<"r","a","t","e","-","l","i","m","i","t">>, <<"l","i","m","i","t","(",")",";">>)>>)}
    \cup {JsonDocument(<<SourceEntry(<<"r","a","t","e","-","l","i","m","i","t">>, <<"l","i","m","i","t","(",")",";">>),
                         SourceEntry(id, text)>>) :
             id \in {<<"c","o","r","s">>, <<"c","o","n","s","t","r","u","c","t","o","r">>},
             text \in SourceTexts \cup {<<>>}}

SourceInit ==
    /\ sourcePc = "ready"
    /\ sourceDocs \in
          {[k \in {SourceFramework.id} |->
               Directory(index.index, index.categories, map)] :
              index \in {DirectoryOf(<<Middleware(<<>>)>>)}, map \in SourceMaps}
    /\ sourceSnippet \in SourceSnippets
    /\ sourceLoaded = <<>>
    /\ sourcePage = <<>>
    /\ sourceDisk = <<>>
    /\ SlugIdle /\ SearchIdle /\ ClassifyIdle /\ BuildIdle /\ PageIdle /\ CrumbIdle /\ LoadIdle /\ MetaIdle /\ RenderIdle /\ RunIdle /\ MatchIdle /\ LdIdle

LoadSnippetSource ==
    /\ sourcePc = "ready"
    /\ sourceLoaded' = <<loadSnippetSource(sourceDocs, SourceFramework.id,
                                         sourceSnippet.id)>>
    /\ sourcePc' = "loaded"
    /\ UNCHANGED <<sourceDocs, sourceSnippet, sourcePage, sourceDisk>>
    /\ UNCHANGED exceptSource

\* generateSnippetPage, pages.push, mkdir and writeFile; a throw of
\* generateSnippetPage leaves the loop and the generator.
GenerateSnippetPage ==
    /\ sourcePc = "loaded"
    /\ IF generateSnippetPageThrows(sourceLoaded[1])
       THEN /\ sourcePc' = "threw"
            /\ UNCHANGED <<sourcePage, sourceDisk>>
       ELSE LET page == generateSnippetPage(SourceFramework, Middleware(<<>>),
                                            sourceSnippet, sourceLoaded[1])
            IN  /\ sourcePc' = "written"
                /\ sourcePage' = <<page>>
                /\ sourceDisk' = (page.path :> page.content)
    /\ UNCHANGED <<sourceDocs, sourceSnippet, sourceLoaded>>
    /\ UNCHANGED exceptSource

SourceNext == LoadSnippetSource \/ GenerateSnippetPage

SpecSource == SourceInit /\ [][SourceNext]_vars

\* The source map is missing, unparsable, or has no entry for the snippet.
NoSourceEntry ==
    LET file == sourceDocs[SourceFramework.id].sources
    IN  \/ file.state \in {"unreadable", "unparsable"}
        \/ /\ file.state = "object"
           /\ \A i \in DOMAIN file.data : file.data[i].id # sourceSnippet.id

\* The text of the code element of a code block.
CodeText(codeBlock) ==
    LET tokens == ReadDocument(codeBlock)
        codes == ElementsNamed(tokens, <<"c","o","d","e">>)
    IN  {TextOf(tokens, i) : i \in codes}

\* The written page has the placeholder comment in its code block and a
\* SoftwareSourceCode JSON-LD without codeSample.
PlaceholderPage ==
    /\ sourcePc = "written"
    /\ sourcePage # <<>>
    /\ sourcePage[1].path \in DOMAIN sourceDisk
    /\ CodeText(sourceDisk[sourcePage[1].path].code) = {SourcePlaceholder}
    /\ LET parsed == JsonParse(sourceDisk[sourcePage[1].path].jsonLd)
       IN  /\ parsed # <<>>
           /\ JsonGet(parsed[1], <<"@","t","y","p","e">>) = <<JString(<<"S","o","f","t","w","a","r","e","S","o","u","r","c","e","C","o",
                                                          "d","e">>)>>
           /\ JsonGet(parsed[1], <<"c","o","d","e","S","a","m","p","l","e">>) = <<>>

\* C14: when the source map is missing, unparsable or has no entry for the
\* snippet, loadSnippetSource returns null (it has no throwing outcome), and
\* the snippet's page is generated and written with the placeholder comment
\* in its code block and no codeSample in its SoftwareSourceCode JSON-LD.
MissingSourceTolerated ==
    NoSourceEntry =>
        /\ sourcePc # "ready" => sourceLoaded = <<SourceNull>>
        /\ sourcePc \notin {"ready", "loaded"} => PlaceholderPage

\* The same for the snippets whose id is not the name of something every
\* object inherits.
MissingSourceToleratedOfOwnNames ==
    sourceSnippet.id \notin ObjectPrototypeFunctions => MissingSourceTolerated

(***************************************************************************)
(* generateMetadata under test: one call with a page type, a context in    *)
(* which any of the eight fields may be missing, and with or without the   *)
(* additional data.                                                        *)
(***************************************************************************)

PageTypes == {"framework", "category", "snippet", "useCase", "guide",
              "pattern", "tag", "search", "home"}

ContextFields == {"framework", "category", "snippet", "useCase", "guide",
                  "pattern", "tag", "query"}

\* A context that has every field.
FullContext ==
    [framework |-> <<"e","x","p","r","e","s","s">>, category |-> <<"m","i","d","d","l","e","w","a","r","e">>,
     snippet |-> <<"c","o","r","s">>, useCase |-> <<"r","e","s","t","-","a","p","i">>,
     guide |-> <<"a","d","d","-","a","u","t","h","e","n","t","i","c","a","t","i",
                 "o","n">>, pattern |-> <<"r","e","p","o","s","i","t","o","r","y">>,
     tag |-> <<"s","e","c","u","r","i","t","y">>, query |-> <<"r","a","t","e","-","l","i","m","i","t">>]

\* The contexts of the calls: each subset of the fields of FullContext.
MetaContexts ==
    {[f \in present |-> FullContext[f]] : present \in SUBSET ContextFields}

\* The additional data of the calls: not given, given without members,
\* given with every member the function reads.
MetaDatas ==
    {<<>>, <<<<>>>>,
     <<[frameworkDescription |-> <<"F","a","s","t",","," ","u","n","o","p","i","n","i","o","n","a",
                                   "t","e","d"," ","w","e","b"," ","f","r","a","m","e","w","o","r",
                                   "k">>,
        snippetCount |-> 2,
        topFeatures |-> <<<<"C","O","R","S">>, <<"R","a","t","e"," ","l","i","m","i","t","e","r">>>>,
        topSnippets |-> <<<<"c","o","r","s">>>>,
        resultCount |-> 1,
        snippetData |-> [description |-> <<"C","o","n","f","i","g","u","r","a","b","l","e"," ","C","O","R",
                                           "S"," ","m","i","d","d","l","e","w","a","r","e">>,
                         features |-> <<<<"O","r","i","g","i","n"," ","a","l","l","o","w"," ","l","i","s",
                                          "t">>>>,
                         command |-> <<"n","p","x"," ","h","a","n","m","a"," ","a","d","d"," ","c","o",
                                       "r","s">>]]>>}

MetaInit ==
    /\ metaPc = "ready"
    /\ metaType \in PageTypes
    /\ metaContext \in MetaContexts
    /\ metaData \in MetaDatas
    /\ metaThrew = FALSE
    /\ metaResult = <<>>
    /\ SlugIdle /\ SearchIdle /\ ClassifyIdle /\ BuildIdle /\ PageIdle /\ CrumbIdle /\ LoadIdle /\ SourceIdle /\ RenderIdle /\ RunIdle /\ MatchIdle /\ LdIdle

GenerateMetadata ==
    /\ metaPc = "ready"
    /\ IF generateMetadataThrows(metaType, metaContext, metaData)
       THEN /\ metaThrew' = TRUE
            /\ metaResult' = <<>>
       ELSE /\ metaThrew' = FALSE
            /\ metaResult' = <<generateMetadata(metaType, metaContext, metaData)>>
    /\ metaPc' = "done"
    /\ UNCHANGED <<metaType, metaContext, metaData>>
    /\ UNCHANGED exceptMeta

MetaNext == GenerateMetadata

SpecMeta == MetaInit /\ [][MetaNext]_vars

\* The context with the empty string for each field it lacks.
WithEmptyFields(context) ==
    [f \in ContextFields |->
        IF f \in DOMAIN context THEN context[f] ELSE <<>>]

\* C15: generateMetadata returns for every page type, every context and
\* with or without the additional data, and the title, the description and
\* the canonical URL it returns are those of the context with the empty
\* string in place of each missing field.
MetadataOfPartialContext ==
    metaPc = "done" =>
        /\ ~metaThrew
        /\ LET filled == generateMetadata(metaType,
                                          WithEmptyFields(metaContext),
                                          metaData)
           IN  /\ metaResult[1].title = filled.title
               /\ metaResult[1].description = filled.description
               /\ metaResult[1].canonical = filled.canonical

\* The part of C15 about the title and the description of the calls that
\* return.
MetadataTextOfPartialContext ==
    (metaPc = "done" /\ ~metaThrew) =>
        LET filled == generateMetadata(metaType,
                                       WithEmptyFields(metaContext),
                                       metaData)
        IN  /\ metaResult[1].title = filled.title
            /\ metaResult[1].description = filled.description

\* A snippet call without snippetData has thrown.
MetadataThrown == metaPc = "done" /\ metaThrew

\* A call has returned a canonical URL with the text "undefined" in it.
MetadataUndefinedCanonical ==
    /\ metaPc = "done" /\ ~metaThrew
    /\ metaType = "guide" /\ "guide" \notin DOMAIN metaContext
    /\ metaResult[1].canonical = SITE_URL \o <<"/","g","u","i","d","e","/","u","n","d","e","f","i","n","e","d">>

(***************************************************************************)
(* The breadcrumb navigation of the pages of one build.                    *)
(***************************************************************************)

\* The targets of the hyperlinks of a piece of markup: the href values of
\* its a elements.
HyperlinkTargets(markup) ==
    LET tokens == ReadDocument(markup)
    IN  {AttributeValue(tokens[i].attrs, <<"h","r","e","f">>) :
            i \in ElementsNamed(tokens, <<"a">>)}

\* The breadcrumb hyperlinks of the pages of a list that lead neither to
\* the site root nor to the logical URL of an emitted page.
DanglingBreadcrumbLinks(pages) ==
    LET emitted == EmittedPages
        logical == {<<LogicalPath(emitted[i].path)>> : i \in DOMAIN emitted}
    IN  UNION {HyperlinkTargets(pages[i].content.breadcrumb) :
                  i \in DOMAIN pages}
        \ (logical \cup {<<<<"/">>>>})

\* C16: when the build is done, every hyperlink of the breadcrumb of every
\* emitted page leads to the site root or to the logical URL of a page the
\* build has emitted.
BreadcrumbLinksResolve ==
    buildPc = "done" => DanglingBreadcrumbLinks(EmittedPages) = {}

\* The part of C16 that is about the framework, category, snippet and
\* use-case pages.
BreadcrumbLinksResolveOfContentPages ==
    buildPc = "done" =>
        DanglingBreadcrumbLinks(results.framework.pages
                                \o results.category.pages
                                \o results.snippet.pages
                                \o results.useCase.pages) = {}

\* A finished build whose tag, guide, pattern, comparison and search pages
\* link to /tag/express, /guide/express, /pattern/express, /compare and
\* /search, none of them a page of the build.
BreadcrumbLinksDangling ==
    /\ buildPc = "done"
    /\ {<<<<"/","t","a","g","/","e","x","p","r","e","s","s">>>>, <<<<"/","g","u","i","d","e","/","e","x","p","r","e","s","s">>>>, <<<<"/","p","a","t","t","e","r","n","/","e","x","p","r","e","s","s">>>>,
        <<<<"/","c","o","m","p","a","r","e">>>>, <<<<"/","s","e","a","r","c","h">>>>}
           \subseteq DanglingBreadcrumbLinks(EmittedPages)

(***************************************************************************)
(* The renderers of the markup layer under test (utils/content-loader.ts): *)
(* one call of a renderer with a free text as one of its arguments.        *)
(***************************************************************************)

\* The free-text arguments of the renderers.
RenderSlots ==
    {"title", "description", "breadcrumbName", "breadcrumbLastName", "code",
     "faqQuestion", "faqAnswer", "relatedDisplayName", "relatedName",
     "feature", "command", "dependency", "usage"}

\* The free texts: plain ones, and ones with the characters of markup.
RenderTexts ==
    {<<>>, <<"c","o","r","s">>, <<"<","b",">","c","o","r","s","<","/","b",">">>, <<"a"," ","&"," ","b">>, <<"s","a","y"," ","\"","h","i","\"">>, <<"i","t","'","s">>,
     <<"<","/","c","o","d","e",">","<","s","c","r","i","p","t",">","x",
       "<","/","s","c","r","i","p","t",">">>, <<"&","l","t",";">>}

\* The call of the renderer of a slot with the text in the slot.
Render(slot, text) ==
    CASE slot = "title" ->
             generateHtmlHead(
                 PageMetadata(text, <<"S","n","i","p","p","e","t","s">>, SITE_URL, <<>>, <<>>, <<>>,
                              FALSE), <<>>)
      [] slot = "description" ->
             generateHtmlHead(
                 PageMetadata(<<"H","a","n","m","a">>, text, SITE_URL, <<>>, <<>>, <<>>,
                              FALSE), <<>>)
      [] slot = "breadcrumbName" ->
             generateBreadcrumb(<<BreadcrumbItem(text, <<"/">>),
                                  BreadcrumbItem(<<"C","O","R","S">>, <<"/","s","n","i","p","p","e","t","/","c","o","r","s">>)>>)
      [] slot = "breadcrumbLastName" ->
             generateBreadcrumb(<<BreadcrumbItem(<<"H","o","m","e">>, <<"/">>),
                                  BreadcrumbItem(text, <<"/","s","n","i","p","p","e","t","/","c","o","r","s">>)>>)
      [] slot = "code" -> generateCodeBlock(text, <<"t","y","p","e","s","c","r","i","p","t">>)
      [] slot = "faqQuestion" ->
             generateFaqSection(<<Faq(text, <<"<","c","o","d","e",">","n","p","x"," ","h","a","n","m","a"," ",
                                              "a","d","d"," ","c","o","r","s","<","/","c","o","d","e",">">>)>>)
      [] slot = "faqAnswer" ->
             generateFaqSection(<<Faq(<<"H","o","w"," ","t","o"," ","i","n","s","t","a","l","l","?">>, text)>>)
      [] slot = "relatedDisplayName" ->
             generateRelatedSnippets(
                 <<RelatedSnippet(<<"c","o","r","s">>, text, <<"/","s","n","i","p","p","e","t","/","c","o","r","s">>)>>)
      [] slot = "relatedName" ->
             generateRelatedSnippets(
                 <<RelatedSnippet(text, <<"C","O","R","S">>, <<"/","s","n","i","p","p","e","t","/","c","o","r","s">>)>>)
      [] slot = "feature" -> generateFeatureList(<<<<"F","a","s","t">>, text>>)
      [] slot = "command" -> generateInstallationSection(text, <<<<"c","o","r","s">>>>)
      [] slot = "dependency" ->
             generateInstallationSection(<<"n","p","x"," ","h","a","n","m","a"," ","a","d","d"," ","c","o",
                                           "r","s">>,
                                         <<<<"e","x","p","r","e","s","s">>, text>>)
      [] slot = "usage" -> generateUsageSection(text)

RenderInit ==
    /\ renderPc = "ready"
    /\ renderSlot \in RenderSlots
    /\ renderText \in RenderTexts
    /\ renderOutput = <<>>
    /\ SlugIdle /\ SearchIdle /\ ClassifyIdle /\ BuildIdle /\ PageIdle /\ CrumbIdle /\ LoadIdle /\ SourceIdle /\ MetaIdle /\ RunIdle /\ MatchIdle /\ LdIdle

CallRenderer ==
    /\ renderPc = "ready"
    /\ renderOutput' = Render(renderSlot, renderText)
    /\ renderPc' = "done"
    /\ UNCHANGED <<renderSlot, renderText>>
    /\ UNCHANGED exceptRender

RenderNext == CallRenderer

SpecRender == RenderInit /\ [][RenderNext]_vars

\* The elements of a piece of markup: its start and end tags in order, each
\* with its name and the names of its attributes.
TagsOf(markup) ==
    LET tokens == ReadDocument(markup)
        tags == SelectSeq(tokens, LAMBDA t : t.kind # "text")
    IN  [i \in DOMAIN tags |->
            [kind |-> tags[i].kind, name |-> tags[i].name,
             attrs |-> [a \in DOMAIN tags[i].attrs |-> tags[i].attrs[a].name]]]

\* The texts and the attribute values of a piece of markup, character
\* references decoded.
TextsOf(markup) ==
    LET tokens == ReadDocument(markup)
    IN  {tokens[i].text : i \in {j \in DOMAIN tokens : tokens[j].kind = "text"}}
        \cup UNION {{tokens[i].attrs[a].value : a \in DOMAIN tokens[i].attrs} :
                       i \in DOMAIN tokens}

\* The free text of the call is in the output as text only: the output has
\* the elements it has for a plain text, and the free text, if it is not
\* empty, is part of one of the texts or attribute values read back.
FreeTextEscaped ==
    /\ TagsOf(renderOutput) = TagsOf(Render(renderSlot, <<"x">>))
    /\ \/ renderText = <<>>
       \/ \E t \in TextsOf(renderOutput) :
             \E i \in 1..Len(t) : StartsWithAt(t, i, renderText)

\* C17: the output of every renderer holds each free-text argument as
\* escaped text, the FAQ answer excepted.
RenderersEscapeFreeText ==
    (renderPc = "done" /\ renderSlot # "faqAnswer") => FreeTextEscaped

\* The part of C17 that is about every argument other than the dependency
\* names.
RenderersEscapeFreeTextButDependencies ==
    (renderPc = "done" /\ renderSlot \notin {"faqAnswer", "dependency"})
        => FreeTextEscaped

\* An installation section whose dependency name has added an element to
\* the markup.
RawDependencyName ==
    /\ renderPc = "done"
    /\ renderSlot = "dependency"
    /\ renderText = <<"<","b",">","c","o","r","s","<","/","b",">">>
    /\ \E i \in DOMAIN TagsOf(renderOutput) :
          TagsOf(renderOutput)[i].name = <<"b">>

(***************************************************************************)
(* Runs of the build process (index.ts) over one output directory.  A run  *)
(* is build() followed by process.exit; the next run starts with the files *)
(* the earlier runs have left.  Of the output directory the model keeps    *)
(* the files, not the directories.  mkdir and writeFile may reject; now is *)
(* the time of a run, its number.                                          *)
(***************************************************************************)

\* The steps of build() in the order of its awaits.
Steps == Generators \o <<"sitemap", "robots", "stats">>

\* The position of build() after a step that returned.
StepAfter(step) ==
    LET i == CHOOSE j \in DOMAIN Steps : Steps[j] = step
    IN  IF i < Len(Steps) THEN Steps[i + 1] ELSE "resolved"

\* What each generator returns when nothing throws.
GeneratorResult(generator, docs) ==
    CASE generator = "framework" -> generateFrameworkPages
      [] generator = "category" -> generateCategoryPages(docs)
      [] generator = "snippet" -> generateSnippetPages(docs)
      [] generator = "useCase" -> generateUseCasePages(docs)
      [] generator = "comparison" -> generateComparisonPages(docs)
      [] generator = "tutorial" -> generateTutorialPages(docs)
      [] generator = "tag" -> generateTagPages(docs)
      [] generator = "search" -> generateSearchPages(docs)
      [] generator = "pattern" -> generatePatternPages(docs)

\* The round of the snippet loop in which generateSnippetPage throws (the
\* first snippet whose source code is not a string), or 0 when none does.
generateSnippetPagesThrowsAt(docs) ==
    LET frameworks == loadAllFrameworks
        SourcesOf(framework) ==
            LET categories == loadFrameworkCategories(docs, framework.id)
            IN  Flatten([c \in DOMAIN categories |->
                    [i \in DOMAIN categories[c].snippets |->
                        loadSnippetSource(docs, framework.id,
                                          categories[c].snippets[i].id)]])
        sources == Flatten([k \in DOMAIN frameworks |-> SourcesOf(frameworks[k])])
        throwing == {i \in DOMAIN sources : generateSnippetPageThrows(sources[i])}
    IN  IF throwing = {} THEN 0 ELSE Min(throwing)

\* The round in which a generator throws by itself, or 0.
ThrowsAt(generator, docs) ==
    IF generator = "snippet" THEN generateSnippetPagesThrowsAt(docs) ELSE 0

\* The mutant of PageFile that stamps the file with the time of the run.
PageFileStamped(page, now) == [content |-> page.content, written |-> now]

\* writeFile(page.path, page.content, "utf-8"): the data of the file.
PageFile(page, now) == page.content

\* The files after the writeFile of each page of the list in order: a path
\* holds what was written to it last.
WritePages(disk, pages, now) ==
    LET paths == {pages[i].path : i \in DOMAIN pages}
        last(p) == CHOOSE i \in DOMAIN pages :
                       /\ pages[i].path = p
                       /\ \A j \in DOMAIN pages : pages[j].path = p => j <= i
    IN  [p \in DOMAIN disk \cup paths |->
            IF p \in paths THEN PageFile(pages[last(p)], now) ELSE disk[p]]

\* The path and the data of the file each of the last three steps writes;
\* the sitemap holds the date and the statistics the time of the run.
ArtifactPath(step) ==
    PathJoin(<<OUTPUT_DIR,
               CASE step = "sitemap" -> <<"s","i","t","e","m","a","p",".","x","m","l">>
                 [] step = "robots" -> <<"r","o","b","o","t","s",".","t","x","t">>
                 [] step = "stats" -> <<"b","u","i","l","d","-","s","t","a","t","s",".","j","s","o","n">>>>)

ArtifactFile(step, res, now) ==
    CASE step = "sitemap" ->
             [urls |-> generateSitemap(AllPages(res)), lastmod |-> now]
      [] step = "robots" -> generateRobotsTxt
      [] step = "stats" ->
             [stats |-> generateBuildStats([g \in DOMAIN res |-> res[g].stats]),
              buildDate |-> now]

\* process.exit(0) when build() resolves, process.exit(1) when it rejects.
ExitStatusZero(thrown) == 0

ExitStatus(thrown) == IF thrown = <<>> THEN 0 ELSE 1

\* The largest number of pages a generator has written when an operation
\* of the file system rejects.
MaxWritten == 1

\* The largest number of runs over one output directory.
MaxRuns == 2

constructorSnippet ==
    Snippet(<<"c","o","n","s","t","r","u","c","t","o","r">>, <<"c","o","n","s","t","r","u","c","t","o","r">>, <<"C","o","n","s","t","r","u","c","t","o","r">>,
            <<"B","u","i","l","d"," ","a","n"," ","a","p","p">>, <<"C","r","e","a","t","e"," ","t","h","e"," ","a","p","p"," ","o",
                                "b","j","e","c","t">>, <<>>,
            <<"s","r","c","/","c","o","n","s","t","r","u","c","t","o","r",".",
              "t","s">>)

\* The content directories of the runs: two categories with one id, a
\* source map with the source of a snippet, and a snippet named like an
\* inherited property next to a source map without it.
RunDocs ==
    {[k \in {loadAllFrameworks[i].id : i \in DOMAIN loadAllFrameworks} |->
         IF k = loadAllFrameworks[1].id
         THEN [DirectoryOf(express) EXCEPT !.sources = sources]
         ELSE Directory(Unreadable, <<>>, Unreadable)] :
        <<express, sources>> \in
            {<<<<Middleware(<<corsSnippet>>), Middleware(<<jwtSnippet>>)>>,
               Unreadable>>,
             <<<<Middleware(<<corsSnippet, jwtSnippet>>)>>,
               JsonDocument(<<SourceEntry(<<"c","o","r","s">>, <<"a","p","p",".","u","s","e","(","c","o","r","s","(",")",")",";">>)>>)>>,
             <<<<Auth(<<jwtSnippet, constructorSnippet>>)>>,
               JsonDocument(<<SourceEntry(<<"c","o","r","s">>, <<"a","p","p",".","u","s","e","(","c","o","r","s","(",")",")",";">>)>>)>>}}

RunInit ==
    /\ runPc = "framework"
    /\ runDocs \in RunDocs
    /\ runResults = <<>>
    /\ runDisk = <<>>
    /\ runLog = <<>>
    /\ runThrown = <<>>
    /\ runExit = <<>>
    /\ runCount = 1
    /\ runBefore = <<>>
    /\ SlugIdle /\ SearchIdle /\ ClassifyIdle /\ BuildIdle /\ PageIdle /\ CrumbIdle /\ LoadIdle /\ SourceIdle /\ MetaIdle /\ RenderIdle /\ MatchIdle /\ LdIdle

\* A generator returns: it has written its pages, and build() goes on.
GeneratorReturns ==
    \E g \in {Generators[i] : i \in DOMAIN Generators} :
        /\ runPc = g
        /\ ThrowsAt(g, runDocs) = 0
        /\ LET result == GeneratorResult(g, runDocs)
           IN  /\ runResults' = runResults @@ (g :> result)
               /\ runDisk' = WritePages(runDisk, result.pages, runCount)
        /\ runLog' = Append(runLog, g)
        /\ runPc' = StepAfter(g)
        /\ UNCHANGED <<runDocs, runThrown, runExit, runCount, runBefore>>
        /\ UNCHANGED exceptRun

\* A generator throws, by itself in the round ThrowsAt or because mkdir or
\* writeFile rejects in an earlier round: the pages of the rounds before
\* are written, and build() rejects.
GeneratorThrows ==
    \E g \in {Generators[i] : i \in DOMAIN Generators} :
        /\ runPc = g
        /\ LET pages == GeneratorResult(g, runDocs).pages
               at == ThrowsAt(g, runDocs)
           IN  \E round \in 1..Len(pages) :
                  /\ \/ at = round
                     \/ round <= MaxWritten + 1 /\ (at = 0 \/ round < at)
                  /\ runDisk' = WritePages(runDisk, SubSeq(pages, 1, round - 1),
                                           runCount)
                  /\ runThrown' = <<[step |-> g,
                                     cause |-> IF at = round THEN "generator"
                                               ELSE "file system"]>>
        /\ runLog' = Append(runLog, g)
        /\ runPc' = "rejected"
        /\ UNCHANGED <<runDocs, runResults, runExit, runCount, runBefore>>
        /\ UNCHANGED exceptRun

\* generateSitemap, generateRobotsTxt or generateBuildStats writes its file.
ArtifactWritten ==
    \E step \in {"sitemap", "robots", "stats"} :
        /\ runPc = step
        /\ runDisk' = [p \in DOMAIN runDisk \cup {ArtifactPath(step)} |->
                          IF p = ArtifactPath(step)
                          THEN ArtifactFile(step, runResults, runCount)
                          ELSE runDisk[p]]
        /\ runLog' = Append(runLog, step)
        /\ runPc' = StepAfter(step)
        /\ UNCHANGED <<runDocs, runResults, runThrown, runExit, runCount,
                       runBefore>>
        /\ UNCHANGED exceptRun

\* The writeFile of one of the last three steps rejects.
ArtifactThrows ==
    \E step \in {"sitemap", "robots", "stats"} :
        /\ runPc = step
        /\ runThrown' = <<[step |-> step, cause |-> "file system"]>>
        /\ runLog' = Append(runLog, step)
        /\ runPc' = "rejected"
        /\ UNCHANGED <<runDocs, runResults, runDisk, runExit, runCount,
                       runBefore>>
        /\ UNCHANGED exceptRun

\* build().then(() => process.exit(0)).catch(() => process.exit(1))
Exit ==
    /\ runPc \in {"resolved", "rejected"}
    /\ runExit' = <<ExitStatus(runThrown)>>
    /\ runPc' = "exited"
    /\ UNCHANGED <<runDocs, runResults, runDisk, runLog, runThrown, runCount,
                   runBefore>>
    /\ UNCHANGED exceptRun

\* The build is run again over the same content and the same output
\* directory, nothing removed.
Rerun ==
    /\ runPc = "exited"
    /\ runCount < MaxRuns
    /\ runBefore' = <<[exit |-> runExit[1], thrown |-> runThrown]>>
    /\ runCount' = runCount + 1
    /\ runPc' = "framework"
    /\ runResults' = <<>>
    /\ runLog' = <<>>
    /\ runThrown' = <<>>
    /\ runExit' = <<>>
    /\ UNCHANGED <<runDocs, runDisk>>
    /\ UNCHANGED exceptRun

RunNext ==
    \/ GeneratorReturns
    \/ GeneratorThrows
    \/ ArtifactWritten
    \/ ArtifactThrows
    \/ Exit
    \/ Rerun

SpecRun == RunInit /\ [][RunNext]_vars

\* The page files of an output directory: its files but the three that the
\* last steps of build() write.
PageFilesOf(disk) ==
    [p \in DOMAIN disk \ {ArtifactPath(step) :
                             step \in {"sitemap", "robots", "stats"}} |-> disk[p]]

\* The page files one build of the content leaves in an empty output
\* directory when no operation of the file system rejects.
FreshPageFiles(docs) ==
    LET PagesOf(g) ==
            LET pages == GeneratorResult(g, docs).pages
            IN  IF ThrowsAt(g, docs) = 0 THEN pages
                ELSE SubSeq(pages, 1, ThrowsAt(g, docs) - 1)
        throwing == {i \in DOMAIN Generators : ThrowsAt(Generators[i], docs) # 0}
        ran == IF throwing = {} THEN Len(Generators) ELSE Min(throwing)
    IN  WritePages(<<>>, Flatten([i \in 1..ran |-> PagesOf(Generators[i])]), 0)

\* No operation of the file system has rejected in this run.
Undisturbed == runThrown = <<>> \/ runThrown[1].cause = "generator"

\* C18: when a run over the output directory of earlier runs of the same
\* content, complete or aborted, has come to its end, the page files of
\* the directory are those of one fresh build of the content, path by path
\* and with the same data.
RerunLeavesFreshPages ==
    (runCount >= 2 /\ runPc = "exited" /\ Undisturbed)
        => PageFilesOf(runDisk) = FreshPageFiles(runDocs)

\* A complete run after a run that a rejected writeFile had aborted in the
\* category generator, one page of a path written that the fresh build
\* writes twice.
RerunLeavesFreshPagesWitness ==
    /\ runCount = 2 /\ runPc = "exited" /\ runExit = <<0>>
    /\ runBefore[1].exit = 1
    /\ runBefore[1].thrown = <<[step |-> "category", cause |-> "file system"]>>
    /\ Len(GeneratorResult("category", runDocs).pages) = 2
    /\ PageFilesOf(runDisk) = FreshPageFiles(runDocs)

\* One run of the process: build(), then the callback of its promise, which
\* is run once build() has resolved or rejected.
OneRunNext ==
    \/ GeneratorReturns
    \/ GeneratorThrows
    \/ ArtifactWritten
    \/ ArtifactThrows
    \/ Exit

FairSpecOneRun == RunInit /\ [][OneRunNext]_vars /\ WF_vars(Exit)

\* The files the last three steps write are in the output directory with
\* the data of this run.
ArtifactsOfThisRun ==
    \A step \in {"sitemap", "robots", "stats"} :
        /\ ArtifactPath(step) \in DOMAIN runDisk
        /\ runDisk[ArtifactPath(step)] = ArtifactFile(step, runResults, runCount)

\* The steps of a run are taken in the order of Steps; after a throw no
\* later step is taken, and if a generator threw none of the three files
\* is written (a first run leaves none in the directory) and the exit
\* status is 1; when nothing has thrown the exit status is 0 and the three
\* files were written after the ninth generator, sitemap, robots, stats.
RunInOrder ==
    /\ IsPrefix(runLog, Steps)
    /\ runThrown # <<>> =>
          /\ runLog # <<>> /\ runLog[Len(runLog)] = runThrown[1].step
          /\ runPc \in {"rejected", "exited"}
          /\ runPc = "exited" => runExit = <<1>>
          /\ runThrown[1].step \in {Generators[i] : i \in DOMAIN Generators} =>
                /\ {runLog[i] : i \in DOMAIN runLog}
                      \cap {"sitemap", "robots", "stats"} = {}
                /\ runCount = 1 =>
                      \A step \in {"sitemap", "robots", "stats"} :
                          ArtifactPath(step) \notin DOMAIN runDisk
    /\ (runThrown = <<>> /\ runPc = "exited") =>
          /\ runLog = Steps
          /\ runExit = <<0>>
          /\ ArtifactsOfThisRun

EmptyQueryFindsNothing ==
    (searchPc = "searched" /\ searchEdits = 0 /\ searchQuery = <<>>)
        => searchResult = <<>>

\* A search for the empty query that has returned every snippet of a list
\* of two, each with the score 17.
EmptyQueryFindsEverySnippet ==
    /\ searchPc = "searched" /\ searchEdits = 0 /\ searchQuery = <<>>
    /\ Len(searchSnippets) = 2
    /\ Len(searchResult) = 2
    /\ \A i \in DOMAIN searchResult : searchResult[i].score = 17

(***************************************************************************)
(* The order of the results on a search page.                              *)
(***************************************************************************)

\* The search pages emitted so far.
SearchPages == IF "search" \in DOMAIN results THEN results["search"].pages ELSE <<>>

\* The place a gathered result must take: after every result with a higher
\* score and after every earlier result with the same score.
PlaceOf(gathered, i) ==
    1 + Cardinality({j \in DOMAIN gathered :
                        \/ gathered[j].score > gathered[i].score
                        \/ gathered[j].score = gathered[i].score /\ j < i})

\* C21: on every search page the results gathered over the frameworks and
\* their categories are in the order of non-increasing score, and results
\* with the same score keep the order in which they were gathered
\* (framework, then category, then snippet).
SearchResultsOrdered ==
    \A q \in DOMAIN SearchPages :
        LET gathered == GatheredResults(LoadedCategories(buildDocs), SEARCH_QUERIES[q])
            cards == SearchPages[q].content.snippets
        IN  /\ Len(cards) = Min({Len(gathered), MaxResultCards})
            /\ \A i \in DOMAIN gathered :
                   PlaceOf(gathered, i) <= MaxResultCards
                       => cards[PlaceOf(gathered, i)]
                              = ResultCards(<<gathered[i]>>)[1]

\* A search page with three results of two frameworks: the first has the
\* highest score and was gathered second, the two others have the same
\* score and stand in the order of their frameworks.
SearchResultsOrderedWitness ==
    \E q \in DOMAIN SearchPages :
        LET gathered == GatheredResults(LoadedCategories(buildDocs), SEARCH_QUERIES[q])
            cards == SearchPages[q].content.snippets
        IN  /\ Len(gathered) = 3 /\ Len(cards) = 3
            /\ gathered[2].score > gathered[1].score
            /\ gathered[1].score = gathered[3].score
            /\ gathered[1].framework # gathered[3].framework
            /\ cards[1] = ResultCards(<<gathered[2]>>)[1]
            /\ cards[2] = ResultCards(<<gathered[1]>>)[1]
            /\ cards[3] = ResultCards(<<gathered[3]>>)[1]

(***************************************************************************)
(* The five keyword matchers applied to one snippet and one keyword        *)
(***************************************************************************)

\* The keywords looked for: each stands in a keyword list of the tag and of
\* the use-case table, and the first in a list of the tutorials and of the
\* patterns as well.
MatchKeywords == {<<"d","a","t","a","b","a","s","e">>, <<"c","o","r","s">>, <<"m","i","d","d","l","e","w","a","r","e">>}

\* The snippets matched: the name is a keyword or not, the purpose holds a
\* keyword or not, the output path holds a keyword or not.
MatchSnippets ==
    {Snippet(name, name, displayName, <<>>, purpose, <<>>, output) :
        name \in {<<"d","a","t","a","b","a","s","e">>, <<"m","i","s","c">>},
        displayName \in {<<"C","O","R","S">>, <<"M","i","s","c">>},
        purpose \in {<<>>, <<"M","i","d","d","l","e","w","a","r","e"," ","c","h","a","i","n">>},
        output \in {<<>>, <<"s","r","c","/","d","a","t","a","b","a","s","e",".","t","s">>}}

MatchInit ==
    /\ matchSnippet \in MatchSnippets
    /\ matchKeyword \in MatchKeywords
    /\ matchResult = <<>>
    /\ SlugIdle /\ SearchIdle /\ ClassifyIdle /\ BuildIdle /\ PageIdle /\ CrumbIdle /\ LoadIdle /\ SourceIdle /\ MetaIdle /\ RenderIdle /\ RunIdle /\ LdIdle

\* The entries of a table of keyword lists that hold the keyword.
ListsWith(lists, keyword) ==
    {i \in DOMAIN lists : \E k \in DOMAIN lists[i] : lists[i][k] = keyword}

\* One matcher has run: the text it tested, whether one of its keyword
\* lists holds the keyword, and whether every such list matched.
Matched(matcher, text, applies, hit) ==
    /\ matcher \notin DOMAIN matchResult
    /\ matchResult' = matchResult @@
           (matcher :> [text |-> text, applies |-> applies, hit |-> hit])
    /\ UNCHANGED <<matchSnippet, matchKeyword, exceptMatch>>

MatchTags ==
    LET lists == [t \in DOMAIN tagPatterns |-> tagPatterns[t].keywords]
        tags == extractTags(matchSnippet)
    IN  Matched("tag", TagText(matchSnippet),
                ListsWith(lists, matchKeyword) # {},
                \A t \in ListsWith(lists, matchKeyword) :
                    \E i \in DOMAIN tags : tags[i] = tagPatterns[t].key)

MatchUseCases ==
    LET lists == [u \in DOMAIN patterns |-> patterns[u].keywords]
        useCases == extractUseCaseFromSnippet(matchSnippet)
    IN  Matched("useCase", UseCaseText(matchSnippet),
                ListsWith(lists, matchKeyword) # {},
                \A u \in ListsWith(lists, matchKeyword) :
                    \E i \in DOMAIN useCases : useCases[i] = patterns[u].key)

MatchTutorials ==
    Matched("tutorial", RelatedText(matchSnippet),
            ListsWith(TUTORIAL_KEYWORDS, matchKeyword) # {},
            \A t \in ListsWith(TUTORIAL_KEYWORDS, matchKeyword) :
                findRelatedSnippets(<<matchSnippet>>, TUTORIAL_KEYWORDS[t]) # <<>>)

MatchPatterns ==
    Matched("pattern", RelatedText(matchSnippet),
            ListsWith(PATTERN_KEYWORDS, matchKeyword) # {},
            \A p \in ListsWith(PATTERN_KEYWORDS, matchKeyword) :
                findPatternSnippets(<<matchSnippet>>, PATTERN_KEYWORDS[p]) # <<>>)

MatchSearch ==
    Matched("search", SearchableText(matchSnippet), TRUE,
            findMatchingSnippets(<<matchSnippet>>, matchKeyword) # <<>>)

MatchNext ==
    MatchTags \/ MatchUseCases \/ MatchTutorials \/ MatchPatterns \/ MatchSearch

SpecMatch == MatchInit /\ [][MatchNext]_vars

\* The keyword occurs in the snippet's name or displayName.
KeywordInName ==
    \/ Includes(ToLowerCase(matchSnippet.name), matchKeyword)
    \/ Includes(ToLowerCase(matchSnippet.displayName), matchKeyword)

\* C22: every matcher tests the same text, the snippet's purpose,
\* description, features, name and displayName joined and lower-cased, and
\* a keyword that occurs in the name or the displayName is matched by every
\* matcher that has it in a keyword list.
MatchersShareText ==
    \A matcher \in DOMAIN matchResult :
        /\ matchResult[matcher].text = SearchableText(matchSnippet)
        /\ (KeywordInName /\ matchResult[matcher].applies)
               => matchResult[matcher].hit

\* The snippet named "database" with nothing else in its text: the tag, the
\* tutorial, the pattern and the search matcher have matched "database",
\* the use-case matcher has not.
NameKeywordMissedByUseCases ==
    /\ DOMAIN matchResult = {"tag", "useCase", "tutorial", "pattern", "search"}
    /\ matchKeyword = <<"d","a","t","a","b","a","s","e">>
    /\ matchSnippet.name = <<"d","a","t","a","b","a","s","e">> /\ matchSnippet.purpose = <<>>
    /\ \A matcher \in DOMAIN matchResult : matchResult[matcher].applies
    /\ \A matcher \in DOMAIN matchResult :
           matchResult[matcher].hit <=> matcher # "useCase"

(***************************************************************************)
(* The <loc> values of the sitemap                                         *)
(***************************************************************************)

\* C23: every <loc> of the sitemap is the canonical URL of the page the
\* entry was made from, the site origin followed by the page's logical
\* path, without the output root.
SitemapLocIsCanonical ==
    \A i \in DOMAIN sitemap :
        sitemap[i].url = EmittedPages[i].metadata.canonical

\* A sitemap in which every <loc> is the site origin followed by the path
\* of the page's file under the output root, and none is the canonical URL
\* of its page.
SitemapLocIsFilePath ==
    /\ sitemap # <<>>
    /\ \A i \in DOMAIN sitemap :
           /\ sitemap[i].url = SITE_URL \o EmittedPages[i].path
           /\ IsPrefix(SITE_URL \o OUTPUT_DIR, sitemap[i].url)
           /\ sitemap[i].url # EmittedPages[i].metadata.canonical

(***************************************************************************)
(* The canonical URLs of one build                                         *)
(***************************************************************************)

\* The pages of one generator emitted so far.
PagesBy(generator) ==
    IF generator \in DOMAIN results THEN results[generator].pages ELSE <<>>

\* C24: no two pages emitted in one build have the same canonical URL; the
\* tag pages (and the use-case pages) of one tag (one use case) under two
\* frameworks have different canonical URLs.
CanonicalsUnique ==
    \A i, j \in DOMAIN EmittedPages :
        i # j => EmittedPages[i].metadata.canonical
                     # EmittedPages[j].metadata.canonical

\* The tag pages of one tag under two frameworks, written to two files,
\* with one canonical URL; and the same for two use-case pages.
CanonicalSharedAcrossFrameworks ==
    /\ \E i, j \in DOMAIN PagesBy("tag") :
           /\ PagesBy("tag")[i].path # PagesBy("tag")[j].path
           /\ PagesBy("tag")[i].metadata.canonical
                  = PagesBy("tag")[j].metadata.canonical
    /\ \E i, j \in DOMAIN PagesBy("useCase") :
           /\ PagesBy("useCase")[i].path # PagesBy("useCase")[j].path
           /\ PagesBy("useCase")[i].content.useCase
                  = PagesBy("useCase")[j].content.useCase
           /\ PagesBy("useCase")[i].metadata.canonical
                  = PagesBy("useCase")[j].metadata.canonical

(***************************************************************************)
(* The snippet links of one build                                          *)
(***************************************************************************)

\* Every generator has returned.
AllGenerated == \A g \in DOMAIN Generators : Generators[g] \in DOMAIN results

\* The snippet links of a page: the cards of a category page, the snippet
\* entries of the other pages.
SnippetLinks(page) ==
    IF "cards" \in DOMAIN page.content THEN page.content.cards
    ELSE IF "snippets" \in DOMAIN page.content THEN page.content.snippets
    ELSE <<>>

\* The logical URLs of the snippet pages of the build.
SnippetPageUrls ==
    {LogicalPath(PagesBy("snippet")[p].path) : p \in DOMAIN PagesBy("snippet")}

\* The number of "/" in a string.
Slashes(text) == Cardinality({i \in DOMAIN text : text[i] = "/"})

\* The snippet links of the pages of a generator that are not the logical
\* URL of a snippet page of the build.
DanglingSnippetLinks(generator) ==
    {link.href : link \in UNION {{SnippetLinks(PagesBy(generator)[i])[k] :
                                      k \in DOMAIN SnippetLinks(PagesBy(generator)[i])} :
                                 i \in DOMAIN PagesBy(generator)}}
        \ SnippetPageUrls

\* C25: when the build has run its generators, every snippet link of a
\* category, tag, use-case, search, guide or pattern page is
\* /snippet/<framework>/<category>/<snippet>, the logical URL of a snippet
\* page of the same build.
SnippetLinksResolve ==
    AllGenerated =>
        \A generator \in {"category", "tag", "useCase", "search", "tutorial", "pattern"} :
            \A i \in DOMAIN PagesBy(generator) :
                \A k \in DOMAIN SnippetLinks(PagesBy(generator)[i]) :
                    LET href == SnippetLinks(PagesBy(generator)[i])[k].href
                    IN  /\ Slashes(href) = 4
                        /\ href \in SnippetPageUrls

\* A finished build in which the snippet links of the category, tag,
\* use-case and search pages are URLs of snippet pages, while a guide and a
\* pattern page link to /snippet/<framework>/<snippet>, which is the URL of
\* no page.
SnippetLinksWithoutCategory ==
    /\ AllGenerated
    /\ \A generator \in {"category", "tag", "useCase", "search"} :
           DanglingSnippetLinks(generator) = {}
    /\ \E generator \in {"category", "tag", "useCase", "search"} :
           \E i \in DOMAIN PagesBy(generator) :
               SnippetLinks(PagesBy(generator)[i]) # <<>>
    /\ <<"/","s","n","i","p","p","e","t","/","h","o","n","o","/","b","e","a","r","e","r">> \in DanglingSnippetLinks("tutorial")
    /\ <<"/","s","n","i","p","p","e","t","/","h","o","n","o","/","b","e","a","r","e","r">> \in DanglingSnippetLinks("pattern")

(***************************************************************************)
(* The use-case pages of one build                                         *)
(***************************************************************************)

\* The snippets of the content with their framework: one entry for each
\* snippet of each category loadFrameworkCategories returns.
ContentSnippets ==
    LET loaded == LoadedCategories(buildDocs)
    IN  Flatten([f \in DOMAIN loaded |->
                    [i \in DOMAIN AllSnippets(loaded[f]) |->
                        [framework |-> loadAllFrameworks[f],
                         snippet |-> AllSnippets(loaded[f])[i]]]])

\* The use-case pages of a bucket under a framework.
UseCasePagesFor(useCase, framework) ==
    SelectSeq(PagesBy("useCase"),
              LAMBDA page :
                  page.path = PathJoin(<<OUTPUT_DIR, <<"u","s","e","-","c","a","s","e">>, framework.id,
                                         slugify(useCase) \o <<".","h","t","m","l">>>>))

\* The page lists the snippet.
Lists(page, snippet) ==
    \E k \in DOMAIN page.content.snippets :
        page.content.snippets[k].snippetId = snippet.id

\* C26: when the use-case generator has returned, every bucket other than
\* "general" that extractUseCaseFromSnippet gives a snippet has a page
\* under the snippet's framework that lists the snippet, and every use-case
\* page lists a snippet.
EveryUseCaseHasItsPage ==
    "useCase" \in DOMAIN results =>
        /\ \A e \in DOMAIN ContentSnippets :
               LET useCases == extractUseCaseFromSnippet(ContentSnippets[e].snippet)
               IN  \A u \in DOMAIN useCases :
                       useCases[u] # general =>
                           \E p \in DOMAIN UseCasePagesFor(useCases[u], ContentSnippets[e].framework) :
                               Lists(UseCasePagesFor(useCases[u], ContentSnippets[e].framework)[p],
                                     ContentSnippets[e].snippet)
        /\ \A p \in DOMAIN PagesBy("useCase") :
               PagesBy("useCase")[p].content.snippets # <<>>

\* The snippet "bearer" of Hono is in the buckets "authentication" and
\* "security": the page of the first lists it, the second has no page under
\* any framework.
UseCaseWithoutPage ==
    /\ "useCase" \in DOMAIN results
    /\ \E e \in DOMAIN ContentSnippets :
           LET useCases == extractUseCaseFromSnippet(ContentSnippets[e].snippet)
               hono == ContentSnippets[e].framework
           IN  /\ ContentSnippets[e].snippet = bearerSnippet
               /\ \E u \in DOMAIN useCases : useCases[u] = <<"a","u","t","h","e","n","t","i","c","a","t","i","o","n">>
               /\ \E u \in DOMAIN useCases : useCases[u] = <<"s","e","c","u","r","i","t","y">>
               /\ \E p \in DOMAIN UseCasePagesFor(<<"a","u","t","h","e","n","t","i","c","a","t","i","o","n">>, hono) :
                      Lists(UseCasePagesFor(<<"a","u","t","h","e","n","t","i","c","a","t","i","o","n">>, hono)[p], bearerSnippet)
               /\ \A f \in DOMAIN loadAllFrameworks :
                      UseCasePagesFor(<<"s","e","c","u","r","i","t","y">>, loadAllFrameworks[f]) = <<>>
    /\ \A p \in DOMAIN PagesBy("useCase") :
           PagesBy("useCase")[p].content.snippets # <<>>

(***************************************************************************)
(* The tag pages of one build                                              *)
(***************************************************************************)

\* The tag pages of a framework.
TagPagesOf(framework) ==
    SelectSeq(PagesBy("tag"),
              LAMBDA page :
                  IsPrefix(PathJoin(<<OUTPUT_DIR, <<"t","a","g">>, framework.id>>) \o <<"/">>,
                           page.path))

\* C27: when the tag generator has returned, every snippet of a framework
\* is listed on a tag page of that framework; a snippet whose only tag is
\* "general" is listed on the page of the tag "general".
EverySnippetOnATagPage ==
    "tag" \in DOMAIN results =>
        \A e \in DOMAIN ContentSnippets :
            \E p \in DOMAIN TagPagesOf(ContentSnippets[e].framework) :
                /\ Lists(TagPagesOf(ContentSnippets[e].framework)[p],
                         ContentSnippets[e].snippet)
                /\ extractTags(ContentSnippets[e].snippet) = <<general>>
                       => TagPagesOf(ContentSnippets[e].framework)[p].content.tag
                              = general

\* The snippet "hello" of Hono has the one tag "general": no tag page of
\* Hono lists it and no page has the tag "general", while the snippet
\* "cors-strict" beside it is on the page of the tag "cors".
UntaggedSnippetOnNoTagPage ==
    /\ "tag" \in DOMAIN results
    /\ \E e \in DOMAIN ContentSnippets :
           /\ ContentSnippets[e].snippet = helloSnippet
           /\ extractTags(helloSnippet) = <<general>>
           /\ \A p \in DOMAIN TagPagesOf(ContentSnippets[e].framework) :
                  ~Lists(TagPagesOf(ContentSnippets[e].framework)[p], helloSnippet)
           /\ \E p \in DOMAIN TagPagesOf(ContentSnippets[e].framework) :
                  /\ TagPagesOf(ContentSnippets[e].framework)[p].content.tag = <<"c","o","r","s">>
                  /\ Lists(TagPagesOf(ContentSnippets[e].framework)[p], strictCorsSnippet)
    /\ \A p \in DOMAIN PagesBy("tag") : PagesBy("tag")[p].content.tag # general

(***************************************************************************)
(* Successful builds over changing content and one output directory        *)
(***************************************************************************)

\* The largest number of builds over one output directory.
MaxBuilds == 2

\* The content directories of the builds: Express.js with two snippets in
\* one category, with the first of them alone, and with the second in
\* another category.
RebuildDocs ==
    {[k \in {loadAllFrameworks[i].id : i \in DOMAIN loadAllFrameworks} |->
         IF k = loadAllFrameworks[1].id THEN DirectoryOf(express)
         ELSE Directory(Unreadable, <<>>, Unreadable)] :
        express \in {<<Middleware(<<corsSnippet, jwtSnippet>>)>>,
                     <<Middleware(<<corsSnippet>>)>>,
                     <<Auth(<<jwtSnippet>>)>>}}

RebuildInit ==
    /\ runPc = "framework"
    /\ runDocs \in RebuildDocs
    /\ runResults = <<>>
    /\ runDisk = <<>>
    /\ runLog = <<>>
    /\ runThrown = <<>>
    /\ runExit = <<>>
    /\ runCount = 1
    /\ runBefore = <<>>
    /\ SlugIdle /\ SearchIdle /\ ClassifyIdle /\ BuildIdle /\ PageIdle /\ CrumbIdle /\ LoadIdle /\ SourceIdle /\ MetaIdle /\ RenderIdle /\ MatchIdle /\ LdIdle

\* The content is edited and the build is run again over the same output
\* directory: build() removes nothing before it writes.
BuildAgain ==
    /\ runPc = "exited"
    /\ runExit = <<0>>
    /\ runCount < MaxBuilds
    /\ runDocs' \in RebuildDocs
    /\ runBefore' = <<[exit |-> runExit[1], thrown |-> runThrown]>>
    /\ runCount' = runCount + 1
    /\ runPc' = "framework"
    /\ runResults' = <<>>
    /\ runLog' = <<>>
    /\ runThrown' = <<>>
    /\ runExit' = <<>>
    /\ UNCHANGED runDisk
    /\ UNCHANGED exceptRun

\* Builds in which no step throws.
RebuildNext ==
    \/ GeneratorReturns
    \/ ArtifactWritten
    \/ Exit
    \/ BuildAgain

SpecRebuild == RebuildInit /\ [][RebuildNext]_vars

\* The <loc> values of the sitemap.xml of the output directory.
SitemapLocs ==
    LET urls == runDisk[ArtifactPath("sitemap")].urls
    IN  {urls[i].url : i \in DOMAIN urls}

\* The page files of the output directory that no <url> of its sitemap.xml
\* stands for.
UnlistedPageFiles ==
    {p \in DOMAIN PageFilesOf(runDisk) : SITE_URL \o p \notin SitemapLocs}

\* C28: when a build after any number of successful builds has exited with
\* status 0, every page file of the output directory has a <url> entry in
\* its sitemap.xml.
EveryPageFileListed ==
    (runPc = "exited" /\ runExit = <<0>>) => UnlistedPageFiles = {}

\* The second build has exited with status 0 over content without the
\* snippet "jwt-auth", which the first build had: the page file of the
\* snippet is still in the output directory, no page of this build has its
\* path and the sitemap has no entry for it.
StalePageFileUnlisted ==
    LET stale == PathJoin(<<OUTPUT_DIR, <<"s","n","i","p","p","e","t">>, <<"e","x","p","r","e","s","s">>, <<"m","i","d","d","l","e","w","a","r","e">>,
                            <<"j","w","t","-","a","u","t","h",".","h","t","m","l">>>>)
    IN  /\ runCount = 2 /\ runPc = "exited" /\ runExit = <<0>>
        /\ runBefore[1].exit = 0
        /\ stale \in UnlistedPageFiles
        /\ \A i \in DOMAIN AllPages(runResults) : AllPages(runResults)[i].path # stale

(***************************************************************************)
(* The JSON-LD of an emitted page: the third argument each generator        *)
(* passes to generateFullPage, and the script blocks of the document.       *)
(***************************************************************************)

\* seo-metadata.ts: JSON.stringify of the SoftwareApplication object.
generateFrameworkJsonLd(framework, description, snippetCount) ==
    JsonStringify(JObject(
        <<JMember(<<"@","c","o","n","t","e","x","t">>, JString(<<"h","t","t","p","s",":","/","/","s","c","h","e","m","a",".","o","r","g">>)),
          JMember(<<"@","t","y","p","e">>, JString(<<"S","o","f","t","w","a","r","e","A","p","p","l","i","c","a","t","i","o","n">>)),
          JMember(<<"n","a","m","e">>, JString(framework)),
          JMember(<<"d","e","s","c","r","i","p","t","i","o","n">>, JString(description)),
          JMember(<<"a","p","p","l","i","c","a","t","i","o","n","C","a","t","e","g","o","r","y">>, JString(<<"D","e","v","e","l","o","p","e","r","A","p","p","l","i","c","a","t","i","o","n">>)),
          JMember(<<"o","p","e","r","a","t","i","n","g","S","y","s","t","e","m">>, JString(<<"A","n","y">>)),
          JMember(<<"o","f","f","e","r","s">>, JObject(
              <<JMember(<<"@","t","y","p","e">>, JString(<<"O","f","f","e","r">>)),
                JMember(<<"p","r","i","c","e">>, JString(<<"0">>)),
                JMember(<<"p","r","i","c","e","C","u","r","r","e","n","c","y">>, JString(<<"U","S","D">>))>>)),
          JMember(<<"a","g","g","r","e","g","a","t","e","R","a","t","i","n","g">>, JObject(
              <<JMember(<<"@","t","y","p","e">>, JString(<<"A","g","g","r","e","g","a","t","e","R","a","t","i","n","g">>)),
                JMember(<<"r","a","t","i","n","g","V","a","l","u","e">>, JString(<<"4",".","5">>)),
                JMember(<<"r","e","v","i","e","w","C","o","u","n","t">>, JNumber(snippetCount))>>))>>))

\* { name: "Home", url: SITE_URL }, { name: framework.name, url: ... }
HomeAndFrameworkItems(framework) ==
    <<BreadcrumbItem(<<"H","o","m","e">>, SITE_URL),
      BreadcrumbItem(framework.name, SITE_URL \o <<"/","f","r","a","m","e","w","o","r","k","/">> \o framework.id)>>

\* framework-pages.ts: `${jsonLd}\n${breadcrumbJsonLd}`.
FrameworkPageJsonLd(framework, description, totalSnippets) ==
    generateFrameworkJsonLd(framework.name, description, totalSnippets)
        \o <<"\n">> \o generateBreadcrumbJsonLd(HomeAndFrameworkItems(framework))

\* snippet-pages.ts: `${jsonLd}\n${breadcrumbJsonLd}`; the code sample is
\* sourceCode || undefined.
SnippetPageJsonLd(framework, category, snippet, sourceCode) ==
    generateSnippetJsonLd(snippet.displayName, snippet.description, framework.name,
                          IF sourceCode = <<>> THEN <<>> ELSE <<sourceCode>>)
        \o <<"\n">>
        \o generateBreadcrumbJsonLd(
               HomeAndFrameworkItems(framework)
               \o <<BreadcrumbItem(category.title,
                                   SITE_URL \o <<"/","f","r","a","m","e","w","o","r","k","/">> \o framework.id
                                       \o <<"/">> \o category.id),
                     BreadcrumbItem(snippet.displayName,
                                    SITE_URL \o <<"/","s","n","i","p","p","e","t","/">> \o framework.id
                                        \o <<"/">> \o category.id
                                        \o <<"/">> \o snippet.id)>>)

\* category-pages.ts, generateCategoryPage.
CategoryPageJsonLd(framework, category) ==
    generateBreadcrumbJsonLd(
        HomeAndFrameworkItems(framework)
        \o <<BreadcrumbItem(category.title,
                            SITE_URL \o <<"/","f","r","a","m","e","w","o","r","k","/">> \o framework.id
                                \o <<"/">> \o category.id)>>)

\* category-pages.ts, generateTagPage.
TagPageJsonLd(framework, tag) ==
    generateBreadcrumbJsonLd(
        HomeAndFrameworkItems(framework)
        \o <<BreadcrumbItem(<<"T","a","g","s">>, SITE_URL \o <<"/","t","a","g","/">> \o framework.id),
              BreadcrumbItem(tag, SITE_URL \o <<"/","t","a","g","/">> \o framework.id
                                      \o <<"/">> \o slugify(tag))>>)

\* category-pages.ts, generateUseCasePage.
UseCasePageJsonLd(framework, useCase) ==
    generateBreadcrumbJsonLd(
        HomeAndFrameworkItems(framework)
        \o <<BreadcrumbItem(useCase, SITE_URL \o <<"/","u","s","e","-","c","a","s","e","/">> \o framework.id
                                          \o <<"/">> \o slugify(useCase))>>)

\* tutorial-pages.ts, generateTutorialPage.
TutorialPageJsonLd(framework, topic, title) ==
    generateBreadcrumbJsonLd(
        HomeAndFrameworkItems(framework)
        \o <<BreadcrumbItem(<<"G","u","i","d","e","s">>, SITE_URL \o <<"/","g","u","i","d","e","/">> \o framework.id),
              BreadcrumbItem(title, SITE_URL \o <<"/","g","u","i","d","e","/">>
                                        \o slugify(framework.id \o <<"-">> \o topic))>>)

\* pattern-pages.ts, generatePatternPage.
PatternPageJsonLd(framework, pattern, name) ==
    generateBreadcrumbJsonLd(
        HomeAndFrameworkItems(framework)
        \o <<BreadcrumbItem(<<"P","a","t","t","e","r","n","s">>, SITE_URL \o <<"/","p","a","t","t","e","r","n","/">> \o framework.id),
              BreadcrumbItem(name, SITE_URL \o <<"/","p","a","t","t","e","r","n","/">>
                                       \o slugify(framework.id \o <<"-">> \o pattern))>>)

\* The comparison generator.
ComparisonPageJsonLd(fw1, fw2) ==
    generateBreadcrumbJsonLd(
        <<BreadcrumbItem(<<"H","o","m","e">>, SITE_URL),
          BreadcrumbItem(<<"C","o","m","p","a","r","e">>, SITE_URL \o <<"/","c","o","m","p","a","r","e">>),
          BreadcrumbItem(fw1.name \o <<" ","v","s"," ">> \o fw2.name,
                         SITE_URL \o <<"/","c","o","m","p","a","r","e","/">>
                             \o slugify(fw1.name \o <<"-","v","s","-">> \o fw2.name))>>)

\* The search generator.
SearchPageJsonLd(query) ==
    generateBreadcrumbJsonLd(
        <<BreadcrumbItem(<<"H","o","m","e">>, SITE_URL),
          BreadcrumbItem(<<"S","e","a","r","c","h">>, SITE_URL \o <<"/","s","e","a","r","c","h">>),
          BreadcrumbItem(query, SITE_URL \o <<"/","s","e","a","r","c","h","/">> \o slugify(query))>>)

\* The number of entries of each vocabulary the JSON-LD is generated for.
LdChoices == 2

LdGenerators ==
    {"framework", "category", "snippet", "useCase", "comparison", "tutorial",
     "tag", "search", "pattern"}

LdDescriptions == {<<"F","a","s","t",","," ","m","i","n","i","m","a","l","i","s","t"," ","w","e","b"," ","f","r","a","m","e","w","o","r","k">>, <<>>}

LdSources == {<<>>, <<"e","x","p","o","r","t"," ","c","o","n","s","t"," ","c","o","r","s"," ","="," ","(",")"," ","=",">"," ","\"","*","\"",";">>}

LdInit ==
    /\ ldPc = "ready"
    /\ ldFramework \in {loadAllFrameworks[f] : f \in DOMAIN loadAllFrameworks}
    /\ ldDescription \in LdDescriptions
    /\ ldCategory \in {Middleware(<<corsSnippet>>), Auth(<<jwtSnippet, bearerSnippet>>)}
    /\ ldSource \in LdSources
    /\ ldGenerator = ""
    /\ ldJsonLd = <<>>
    /\ ldDocument = <<>>
    /\ SlugIdle /\ SearchIdle /\ ClassifyIdle /\ BuildIdle /\ PageIdle /\ CrumbIdle /\ LoadIdle /\ SourceIdle /\ MetaIdle /\ RenderIdle /\ RunIdle /\ MatchIdle

\* The third argument the generator passes to generateFullPage, for the k-th
\* entry of its vocabulary (the k-th snippet of the category, the k-th pair).
AdditionalJsonLd(generator, k) ==
    CASE generator = "framework" ->
             FrameworkPageJsonLd(ldFramework, ldDescription, Len(ldCategory.snippets))
      [] generator = "category" -> CategoryPageJsonLd(ldFramework, ldCategory)
      [] generator = "snippet" ->
             SnippetPageJsonLd(ldFramework, ldCategory,
                               ldCategory.snippets[Min({k, Len(ldCategory.snippets)})],
                               ldSource)
      [] generator = "useCase" -> UseCasePageJsonLd(ldFramework, COMMON_USE_CASES[k])
      [] generator = "comparison" ->
             ComparisonPageJsonLd(
                 FindFramework(loadAllFrameworks, FRAMEWORK_PAIRS[k][1])[1],
                 FindFramework(loadAllFrameworks, FRAMEWORK_PAIRS[k][2])[1])
      [] generator = "tutorial" ->
             TutorialPageJsonLd(ldFramework, TUTORIAL_TOPICS[k], TUTORIAL_TITLES[k])
      [] generator = "tag" -> TagPageJsonLd(ldFramework, TAGS[k])
      [] generator = "search" -> SearchPageJsonLd(SEARCH_QUERIES[k])
      [] generator = "pattern" ->
             PatternPageJsonLd(ldFramework, PATTERNS[k], PATTERN_NAMES[k])

\* The page type each generator hands to generateMetadata.
PageTypeOf(generator) ==
    CASE generator = "comparison" -> "framework"
      [] generator = "tutorial" -> "guide"
      [] OTHER -> generator

\* A generator builds its metadata (with every field of the context and of
\* the additional data given) and its JSON-LD, and returns
\* generateFullPage(metadata, content, jsonLd); the head does not depend on
\* the content, which is kept to an empty main element here.
GeneratorCallsFullPage ==
    /\ ldPc = "ready"
    /\ \E generator \in LdGenerators, k \in 1..LdChoices :
           /\ ldGenerator' = generator
           /\ ldJsonLd' = AdditionalJsonLd(generator, k)
           /\ ldDocument' =
                  generateFullPage(generateMetadata(PageTypeOf(generator), FullContext,
                                                    CHOOSE d \in MetaDatas : d # <<>> /\ d # <<<<>>>>),
                                   <<"<","m","a","i","n",">","<","/","m","a","i","n",">">>,
                                   <<AdditionalJsonLd(generator, k)>>)
    /\ ldPc' = "done"
    /\ UNCHANGED <<ldFramework, ldDescription, ldCategory, ldSource>>
    /\ UNCHANGED exceptLd

LdNext == GeneratorCallsFullPage

SpecJsonLd == LdInit /\ [][LdNext]_vars

\* The texts of the <script type="application/ld+json"> elements of a
\* document, in document order.
JsonLdBlocks(document) ==
    LET tokens == ReadDocument(document)
        at == {i \in ElementsNamed(tokens, <<"s","c","r","i","p","t">>) :
                  AttributeValue(tokens[i].attrs, <<"t","y","p","e">>) = <<<<"a","p","p","l","i","c","a","t","i","o","n","/","l","d","+","j","s","o","n">>>>}
    IN  [n \in 1..Cardinality(at) |->
            TextOf(tokens, CHOOSE i \in at : Cardinality({j \in at : j <= i}) = n)]

\* JSON.parse accepts the text and returns an object.
HoldsOneJsonObject(text) ==
    JsonParse(text) # <<>> /\ JsonParse(text)[1].t = "object"

\* The block of the document that holds the generator's JSON-LD.
PageJsonLdBlocks ==
    {i \in DOMAIN JsonLdBlocks(ldDocument) : JsonLdBlocks(ldDocument)[i] = ldJsonLd}

\* C29: every <script type="application/ld+json"> block of an emitted page
\* holds exactly one JSON object, and so does the page-specific JSON-LD a
\* generator passes to generateFullPage, on framework and snippet pages as
\* on the pages of every other type.
JsonLdBlocksHoldOneObject ==
    ldPc = "done" =>
        /\ HoldsOneJsonObject(ldJsonLd)
        /\ \A i \in DOMAIN JsonLdBlocks(ldDocument) :
               HoldsOneJsonObject(JsonLdBlocks(ldDocument)[i])

\* A framework page whose page-specific block is written as ldJsonLd and
\* holds two JSON objects one after the other, which JSON.parse rejects.
FrameworkBlockHoldsTwoObjects ==
    /\ ldPc = "done"
    /\ ldGenerator = "framework"
    /\ PageJsonLdBlocks = {2}
    /\ ~HoldsOneJsonObject(ldJsonLd)
    /\ \E cut \in 1..Len(ldJsonLd) :
           /\ ldJsonLd[cut] = "\n"
           /\ HoldsOneJsonObject(SubSeq(ldJsonLd, 1, cut - 1))
           /\ HoldsOneJsonObject(SubSeq(ldJsonLd, cut + 1, Len(ldJsonLd)))

\* Excellent above Very High above Good.
BadgeRank(badge) ==
    CASE badge = <<"E","x","c","e","l","l","e","n","t">> -> 3
      [] badge = <<"V","e","r","y"," ","H","i","g","h">> -> 2
      [] badge = <<"G","o","o","d">> -> 1

\* The comparison pages on which the FAQ answer names the first (k = 1) or
\* the second (k = 2) framework of the pair.
PagesNaming(k) ==
    {i \in DOMAIN PagesBy("comparison") :
        LET content == PagesBy("comparison")[i].content
        IN  IsPrefix((IF k = 1 THEN content.fw1Name ELSE content.fw2Name)
                         \o <<" ","g","e","n","e","r","a","l","l","y"," ","h","a","s"," ","b","e","t","t","e","r"," ","r","a","w"," ","p","e","r","f","o","r","m","a","n","c","e">>,
                     content.fasterAnswer)}

\* C30: on every comparison page of the ten framework pairs the framework
\* that the FAQ answer names as generally having better raw performance has
\* a performance badge at least as high as the other framework's, with
\* Excellent above Very High above Good.
FasterAnswerAgreesWithBadges ==
    \A k \in {1, 2} : \A i \in PagesNaming(k) :
        LET performance == PagesBy("comparison")[i].content.performance
        IN  BadgeRank(performance[k]) >= BadgeRank(performance[3 - k])

\* The page of Fastify and NestJS was generated: its table shows Very High
\* for Fastify and Good for NestJS, and its FAQ answer names NestJS.
FasterAnswerNamesLowerBadge ==
    \E i \in PagesNaming(2) :
        LET content == PagesBy("comparison")[i].content
        IN  /\ content.fw1Id = <<"f","a","s","t","i","f","y">> /\ content.fw2Id = <<"n","e","s","t">>
            /\ content.performance = <<<<"V","e","r","y"," ","H","i","g","h">>, <<"G","o","o","d">>>>
            /\ IsPrefix(<<"N","e","s","t","J","S"," ","g","e","n","e","r","a","l","l","y"," ","h","a","s"," ","b","e","t","t","e","r">>, content.fasterAnswer)

====
